---- MODULE Spec2Model ----
(***************************************************************************)
(* Model of the stenoai summarization pipeline (src/src/summarizer.py,     *)
(* src/src/models.py).  Text is modelled as a sequence of one-character    *)
(* strings, so that str.strip, str.lower, str.replace, the re.sub repair   *)
(* passes and json.loads are computed character by character.              *)
(*                                                                         *)
(* Alphabet of the modelled texts: printable ASCII without the backslash   *)
(* (JSON string escapes do not occur), plus space, tab and newline.        *)
(***************************************************************************)
EXTENDS Integers, Sequences, FiniteSets, TLC

\* ------------------------------------------------------------------------
\* Bounds of the model
\* ------------------------------------------------------------------------

\* Transcripts are a core text with 0..MaxPad blanks before and after it.
MaxPad == 1
\* duration_minutes ranges over 0..MaxDuration.
MaxDuration == 1

\* ------------------------------------------------------------------------
\* Python str primitives
\* ------------------------------------------------------------------------

Min(S) == CHOOSE x \in S : \A y \in S : x <= y
Max(S) == CHOOSE x \in S : \A y \in S : x >= y

\* Characters str.strip() removes and the regex class \s matches.
PyWS == {" ", "\t", "\n", "\r", "\f"}
\* Whitespace json.loads skips between tokens.
JsonWS == {" ", "\t", "\n", "\r"}

\* The backquote character (SANY's lexer rejects it inside a string literal)
Backtick == "<backquote>"

Digit == {"0", "1", "2", "3", "4", "5", "6", "7", "8", "9"}
UpperCase == <<"A", "B", "C", "D", "E", "F", "G", "H", "I", "J", "K", "L", "M",
               "N", "O", "P", "Q", "R", "S", "T", "U", "V", "W", "X", "Y", "Z">>
LowerCase == <<"a", "b", "c", "d", "e", "f", "g", "h", "i", "j", "k", "l", "m",
               "n", "o", "p", "q", "r", "s", "t", "u", "v", "w", "x", "y", "z">>
Letter == {UpperCase[i] : i \in 1..26} \cup {LowerCase[i] : i \in 1..26}

LowerChar(c) ==
    IF \E i \in 1..26 : UpperCase[i] = c
    THEN LowerCase[CHOOSE i \in 1..26 : UpperCase[i] = c]
    ELSE c

\* str.lower()
lower(s) == [i \in 1..Len(s) |-> LowerChar(s[i])]

\* First index j >= i with s[j] in S (Len(s)+1 when there is none)
NextIn(s, i, S) ==
    CHOOSE j \in i..(Len(s) + 1) :
        /\ j = Len(s) + 1 \/ s[j] \in S
        /\ \A k \in i..(j - 1) : s[k] \notin S

\* First index j >= i with s[j] not in S (Len(s)+1 when there is none)
NextNotIn(s, i, S) ==
    CHOOSE j \in i..(Len(s) + 1) :
        /\ j = Len(s) + 1 \/ s[j] \notin S
        /\ \A k \in i..(j - 1) : s[k] \in S

\* Last index j with s[j] not in S (0 when there is none)
LastNotIn(s, S) ==
    CHOOSE j \in 0..Len(s) :
        /\ j = 0 \/ s[j] \notin S
        /\ \A k \in (j + 1)..Len(s) : s[k] \in S

\* str.strip()
strip(s) == SubSeq(s, NextNotIn(s, 1, PyWS), LastNotIn(s, PyWS))

\* pat occurs in s at (1-based) position i
IsAt(s, pat, i) ==
    /\ i >= 1
    /\ i + Len(pat) - 1 <= Len(s)
    /\ \A k \in 1..Len(pat) : s[i + k - 1] = pat[k]

\* str.startswith(pat)
startswith(s, pat) == IsAt(s, pat, 1)

\* pat in s
Contains(s, pat) == \E i \in 1..Len(s) : IsAt(s, pat, i)

\* str.find(pat): 0-based index of the first occurrence, -1 when absent
find(s, pat) ==
    IF Contains(s, pat) THEN Min({i \in 1..Len(s) : IsAt(s, pat, i)}) - 1 ELSE -1

\* str.rfind(pat): 0-based index of the last occurrence, -1 when absent
rfind(s, pat) ==
    IF Contains(s, pat) THEN Max({i \in 1..Len(s) : IsAt(s, pat, i)}) - 1 ELSE -1

\* s[a:b] for 0 <= a, 0 <= b <= len(s)
Slice(s, a, b) == IF b <= a THEN <<>> ELSE SubSeq(s, a + 1, b)

\* old occurs in s at or after position i: the first such position
RECURSIVE ReplaceFrom(_, _, _, _)
ReplaceFrom(s, old, new, i) ==
    LET M == {m \in i..Len(s) : IsAt(s, old, m)}
    IN  IF M = {} THEN SubSeq(s, i, Len(s))
        ELSE SubSeq(s, i, Min(M) - 1) \o new \o ReplaceFrom(s, old, new, Min(M) + Len(old))

\* str.replace(old, new) for a non-empty old
replace(s, old, new) == ReplaceFrom(s, old, new, 1)

RECURSIVE Digits(_)
Digits(n) ==
    LET d == <<"0", "1", "2", "3", "4", "5", "6", "7", "8", "9">>
    IN  IF n < 10 THEN <<d[n + 1]>> ELSE Digits(n \div 10) \o <<d[(n % 10) + 1]>>

\* f"{duration_minutes} minutes"
DurationLabel(n) == Digits(n) \o <<" ", "m", "i", "n", "u", "t", "e", "s">>

\* ------------------------------------------------------------------------
\* Python values (json.loads results, ".get" arguments, Optional fields)
\* ------------------------------------------------------------------------
\* Every value is a record [t, s, kids]: t is the Python type, s the text of
\* a str (or the literal of a number, or the key of a dict member), kids the
\* items of a list or the members of a dict (each member a record of type
\* "member" whose s is the key and whose kids is <<value>>).

PyStr(cs)      == [t |-> "str",    s |-> cs,   kids |-> <<>>]
PyNum(cs)      == [t |-> "num",    s |-> cs,   kids |-> <<>>]
PyBool(cs)     == [t |-> "bool",   s |-> cs,   kids |-> <<>>]
PyNone         == [t |-> "None",   s |-> <<>>, kids |-> <<>>]
PyList(items)  == [t |-> "list",   s |-> <<>>, kids |-> items]
PyDict(membs)  == [t |-> "dict",   s |-> <<>>, kids |-> membs]
PyMember(k, v) == [t |-> "member", s |-> k,    kids |-> <<v>>]

\* ------------------------------------------------------------------------
\* json.loads (CPython json.decoder / json.scanner, strict mode)
\* ------------------------------------------------------------------------

ParseFail == [ok |-> FALSE, pos |-> 0, val |-> PyNone]
ParseOk(p, v) == [ok |-> TRUE, pos |-> p, val |-> v]

L_null     == <<"n", "u", "l", "l">>
L_true     == <<"t", "r", "u", "e">>
L_false    == <<"f", "a", "l", "s", "e">>
L_NaN      == <<"N", "a", "N">>
L_Infinity == <<"I", "n", "f", "i", "n", "i", "t", "y">>

\* A string literal starting at s[i] = '"': ends at the next '"'; a raw
\* control character inside it is an error in strict mode.
ParseString(s, i) ==
    LET j == NextIn(s, i + 1, {"\"", "\n", "\t", "\r", "\f"})
    IN  IF j <= Len(s) /\ s[j] = "\""
        THEN ParseOk(j + 1, PyStr(SubSeq(s, i + 1, j - 1)))
        ELSE ParseFail

\* NUMBER_RE = (-?(?:0|[1-9]\d*))(\.\d+)?([eE][-+]?\d+)?
ParseNumber(s, i) ==
    LET a == IF s[i] = "-" THEN i + 1 ELSE i
        intEnd == IF a > Len(s) THEN a
                  ELSE IF s[a] = "0" THEN a + 1
                  ELSE NextNotIn(s, a, Digit)
        fracEnd == IF intEnd + 1 <= Len(s) /\ s[intEnd] = "." /\ s[intEnd + 1] \in Digit
                   THEN NextNotIn(s, intEnd + 1, Digit)
                   ELSE intEnd
        expAt == IF fracEnd <= Len(s) /\ s[fracEnd] \in {"e", "E"}
                 THEN IF fracEnd + 1 <= Len(s) /\ s[fracEnd + 1] \in {"+", "-"}
                      THEN fracEnd + 2 ELSE fracEnd + 1
                 ELSE 0
        expEnd == IF expAt > 0 /\ expAt <= Len(s) /\ s[expAt] \in Digit
                  THEN NextNotIn(s, expAt, Digit)
                  ELSE fracEnd
    IN  IF intEnd = a THEN ParseFail
        ELSE ParseOk(expEnd, PyNum(SubSeq(s, i, expEnd - 1)))

RECURSIVE ParseValue(_, _), ParseArrayItems(_, _, _), ParseObjectMembers(_, _, _)

\* scanner.py_make_scanner._scan_once
ParseValue(s, i) ==
    IF i > Len(s) THEN ParseFail
    ELSE IF s[i] = "\"" THEN ParseString(s, i)
    ELSE IF s[i] = "{" THEN
        LET p == NextNotIn(s, i + 1, JsonWS)
        IN  IF p > Len(s) THEN ParseFail
            ELSE IF s[p] = "}" THEN ParseOk(p + 1, PyDict(<<>>))
            ELSE ParseObjectMembers(s, p, <<>>)
    ELSE IF s[i] = "[" THEN
        LET p == NextNotIn(s, i + 1, JsonWS)
        IN  IF p > Len(s) THEN ParseFail
            ELSE IF s[p] = "]" THEN ParseOk(p + 1, PyList(<<>>))
            ELSE ParseArrayItems(s, p, <<>>)
    ELSE IF IsAt(s, L_null, i) THEN ParseOk(i + 4, PyNone)
    ELSE IF IsAt(s, L_true, i) THEN ParseOk(i + 4, PyBool(L_true))
    ELSE IF IsAt(s, L_false, i) THEN ParseOk(i + 5, PyBool(L_false))
    ELSE IF ParseNumber(s, i).ok THEN ParseNumber(s, i)
    ELSE IF IsAt(s, L_NaN, i) THEN ParseOk(i + 3, PyNum(L_NaN))
    ELSE IF IsAt(s, L_Infinity, i) THEN ParseOk(i + 8, PyNum(L_Infinity))
    ELSE IF s[i] = "-" /\ IsAt(s, L_Infinity, i + 1)
         THEN ParseOk(i + 9, PyNum(<<"-">> \o L_Infinity))
    ELSE ParseFail

\* decoder.JSONArray: s[i] is where the next item starts
ParseArrayItems(s, i, acc) ==
    LET r == ParseValue(s, i)
        p == NextNotIn(s, r.pos, JsonWS)
    IN  IF ~r.ok \/ p > Len(s) THEN ParseFail
        ELSE IF s[p] = "]" THEN ParseOk(p + 1, PyList(Append(acc, r.val)))
        ELSE IF s[p] = "," THEN ParseArrayItems(s, NextNotIn(s, p + 1, JsonWS), Append(acc, r.val))
        ELSE ParseFail

\* decoder.JSONObject: s[i] is where the next key must start
ParseObjectMembers(s, i, acc) ==
    IF i > Len(s) \/ s[i] # "\"" THEN ParseFail
    ELSE
    LET k == ParseString(s, i)
        c == NextNotIn(s, k.pos, JsonWS)
        v == ParseValue(s, NextNotIn(s, c + 1, JsonWS))
        p == NextNotIn(s, v.pos, JsonWS)
        membs == Append(acc, PyMember(k.val.s, v.val))
    IN  IF ~k.ok \/ c > Len(s) THEN ParseFail
        ELSE IF s[c] # ":" THEN ParseFail
        ELSE IF ~v.ok \/ p > Len(s) THEN ParseFail
        ELSE IF s[p] = "}" THEN ParseOk(p + 1, PyDict(membs))
        ELSE IF s[p] = "," THEN ParseObjectMembers(s, NextNotIn(s, p + 1, JsonWS), membs)
        ELSE ParseFail

\* json.loads(s): ok = FALSE stands for json.JSONDecodeError
json_loads(s) ==
    LET r == ParseValue(s, NextNotIn(s, 1, JsonWS))
    IN  IF r.ok /\ NextNotIn(s, r.pos, JsonWS) = Len(s) + 1 THEN r ELSE ParseFail

\* ------------------------------------------------------------------------
\* The re.sub passes of the repair
\* ------------------------------------------------------------------------

\* [^"\[\]{},:]
ArrayTokenExcluded == {"\"", "[", "]", "{", "}", ",", ":"}

\* r'(\[|\,)\s*([^"\[\]{},:]+?)\s*(\]|\,)' matches at s[i].  The token class
\* also holds blanks, so a match is an opener, a non-empty run of non-excluded
\* characters, and a closer right behind the run.
UnquotedElementAt(s, i) ==
    LET j == NextIn(s, i + 1, ArrayTokenExcluded)
    IN  s[i] \in {"[", ","} /\ j <= Len(s) /\ j > i + 1 /\ s[j] \in {"]", ","}

\* re.sub(r'(\[|\,)\s*([^"\[\]{},:]+?)\s*(\]|\,)', r'\1 "\2" \3', s) from s[i].
\* Group 2 is the run without its surrounding blanks, or the last blank of an
\* all-blank run.  The closer is consumed: the scan goes on behind it.
RECURSIVE SubUnquotedElements(_, _)
SubUnquotedElements(s, i) ==
    LET M == {m \in i..Len(s) : UnquotedElementAt(s, m)}
        m == Min(M)
        j == NextIn(s, m + 1, ArrayTokenExcluded)
        R == SubSeq(s, m + 1, j - 1)
        g2 == IF strip(R) = <<>> THEN <<R[Len(R)]>> ELSE strip(R)
    IN  IF M = {} THEN SubSeq(s, i, Len(s))
        ELSE SubSeq(s, i, m - 1) \o <<s[m], " ", "\"">> \o g2 \o <<"\"", " ", s[j]>>
             \o SubUnquotedElements(s, j + 1)

\* r',\s*}' (closer "}") or r',\s*]' (closer "]") matches at s[i]
TrailingCommaAt(s, closer, i) ==
    LET j == NextNotIn(s, i + 1, PyWS)
    IN  s[i] = "," /\ j <= Len(s) /\ s[j] = closer

\* re.sub(r',\s*}', '}', s) and re.sub(r',\s*]', ']', s), from s[i]
RECURSIVE SubTrailingComma(_, _, _)
SubTrailingComma(s, closer, i) ==
    LET M == {m \in i..Len(s) : TrailingCommaAt(s, closer, m)}
        m == Min(M)
    IN  IF M = {} THEN SubSeq(s, i, Len(s))
        ELSE SubSeq(s, i, m - 1) \o <<closer>>
             \o SubTrailingComma(s, closer, NextNotIn(s, m + 1, PyWS) + 1)

\* r'(\{|\,)\s*([a-zA-Z_][a-zA-Z0-9_]*)\s*:' matches at s[i]
UnquotedKeyAt(s, i) ==
    LET a == NextNotIn(s, i + 1, PyWS)
        b == NextNotIn(s, a, Letter \cup Digit \cup {"_"})
        c == NextNotIn(s, b, PyWS)
    IN  /\ s[i] \in {"{", ","}
        /\ a <= Len(s) /\ s[a] \in Letter \cup {"_"}
        /\ c <= Len(s) /\ s[c] = ":"

\* re.sub(r'(\{|\,)\s*([a-zA-Z_][a-zA-Z0-9_]*)\s*:', r'\1 "\2":', s) from s[i]
RECURSIVE SubUnquotedKeys(_, _)
SubUnquotedKeys(s, i) ==
    LET M == {m \in i..Len(s) : UnquotedKeyAt(s, m)}
        m == Min(M)
        a == NextNotIn(s, m + 1, PyWS)
        b == NextNotIn(s, a, Letter \cup Digit \cup {"_"})
        c == NextNotIn(s, b, PyWS)
    IN  IF M = {} THEN SubSeq(s, i, Len(s))
        ELSE SubSeq(s, i, m - 1) \o <<s[m], " ", "\"">> \o SubSeq(s, a, b - 1)
             \o <<"\"", ":">> \o SubUnquotedKeys(s, c + 1)

\* re.sub(r"'([^']*)'", r'"\1"', s) from s[i]
RECURSIVE SubSingleQuotes(_, _)
SubSingleQuotes(s, i) ==
    LET m == NextIn(s, i, {"'"})
        j == NextIn(s, m + 1, {"'"})
    IN  IF m > Len(s) \/ j > Len(s) THEN SubSeq(s, i, Len(s))
        ELSE SubSeq(s, i, m - 1) \o <<"\"">> \o SubSeq(s, m + 1, j - 1) \o <<"\"">>
             \o SubSingleQuotes(s, j + 1)

\* The passes of _repair_json, each applied to the output of the previous
RepairPasses(s) ==
    LET r1 == SubUnquotedElements(s, 1)
        r2 == SubTrailingComma(r1, "}", 1)
        r3 == SubTrailingComma(r2, "]", 1)
        r4 == SubUnquotedKeys(r3, 1)
    IN  SubSingleQuotes(r4, 1)

\* OllamaSummarizer._repair_json: <<repaired>> when the repaired text parses,
\* <<>> for None
_repair_json(json_text) ==
    IF json_loads(RepairPasses(json_text)).ok THEN <<RepairPasses(json_text)>> ELSE <<>>

\* ------------------------------------------------------------------------
\* Literal texts of the source
\* ------------------------------------------------------------------------

\* ```json
FenceJson == <<Backtick, Backtick, Backtick, "j", "s", "o", "n">>

\* ```
Fence == <<Backtick, Backtick, Backtick>>

\* overview
K_overview == <<"o", "v", "e", "r", "v", "i", "e", "w">>

\* participants
K_participants == <<"p", "a", "r", "t", "i", "c", "i", "p", "a", "n", "t", "s">>

\* discussion_areas
K_discussion_areas == <<"d", "i", "s", "c", "u", "s", "s", "i", "o", "n", "_", "a", "r", "e",
      "a", "s">>

\* key_points
K_key_points == <<"k", "e", "y", "_", "p", "o", "i", "n", "t", "s">>

\* next_steps
K_next_steps == <<"n", "e", "x", "t", "_", "s", "t", "e", "p", "s">>

\* description
K_description == <<"d", "e", "s", "c", "r", "i", "p", "t", "i", "o", "n">>

\* assignee
K_assignee == <<"a", "s", "s", "i", "g", "n", "e", "e">>

\* deadline
K_deadline == <<"d", "e", "a", "d", "l", "i", "n", "e">>

\* point
K_point == <<"p", "o", "i", "n", "t">>

\* context
K_context == <<"c", "o", "n", "t", "e", "x", "t">>

\* title
K_title == <<"t", "i", "t", "l", "e">>

\* analysis
K_analysis == <<"a", "n", "a", "l", "y", "s", "i", "s">>

\* No transcript was generated for this recording. This may be due to poor audio quality, silence throughout the recording, or technical issues with the speech recognition system.
NoTranscriptOverview == <<"N", "o", " ", "t", "r", "a", "n", "s", "c", "r", "i", "p", "t", " ",
      "w", "a", "s", " ", "g", "e", "n", "e", "r", "a", "t", "e", "d", " ", "f", "o", "r", " ",
      "t", "h", "i", "s", " ", "r", "e", "c", "o", "r", "d", "i", "n", "g", ".", " ", "T", "h",
      "i", "s", " ", "m", "a", "y", " ", "b", "e", " ", "d", "u", "e", " ", "t", "o", " ", "p",
      "o", "o", "r", " ", "a", "u", "d", "i", "o", " ", "q", "u", "a", "l", "i", "t", "y", ",",
      " ", "s", "i", "l", "e", "n", "c", "e", " ", "t", "h", "r", "o", "u", "g", "h", "o", "u",
      "t", " ", "t", "h", "e", " ", "r", "e", "c", "o", "r", "d", "i", "n", "g", ",", " ", "o",
      "r", " ", "t", "e", "c", "h", "n", "i", "c", "a", "l", " ", "i", "s", "s", "u", "e", "s",
      " ", "w", "i", "t", "h", " ", "t", "h", "e", " ", "s", "p", "e", "e", "c", "h", " ", "r",
      "e", "c", "o", "g", "n", "i", "t", "i", "o", "n", " ", "s", "y", "s", "t", "e", "m", ".">>

\* Meeting transcript recorded but detailed analysis failed. Content appears to be in a non-English language or format not fully supported.
FallbackOverview == <<"M", "e", "e", "t", "i", "n", "g", " ", "t", "r", "a", "n", "s", "c", "r",
      "i", "p", "t", " ", "r", "e", "c", "o", "r", "d", "e", "d", " ", "b", "u", "t", " ", "d",
      "e", "t", "a", "i", "l", "e", "d", " ", "a", "n", "a", "l", "y", "s", "i", "s", " ", "f",
      "a", "i", "l", "e", "d", ".", " ", "C", "o", "n", "t", "e", "n", "t", " ", "a", "p", "p",
      "e", "a", "r", "s", " ", "t", "o", " ", "b", "e", " ", "i", "n", " ", "a", " ", "n", "o",
      "n", "-", "E", "n", "g", "l", "i", "s", "h", " ", "l", "a", "n", "g", "u", "a", "g", "e",
      " ", "o", "r", " ", "f", "o", "r", "m", "a", "t", " ", "n", "o", "t", " ", "f", "u", "l",
      "l", "y", " ", "s", "u", "p", "p", "o", "r", "t", "e", "d", ".">>

\* Meeting transcript was processed but JSON parsing failed.
EnhancedFallbackOverview == <<"M", "e", "e", "t", "i", "n", "g", " ", "t", "r", "a", "n", "s",
      "c", "r", "i", "p", "t", " ", "w", "a", "s", " ", "p", "r", "o", "c", "e", "s", "s", "e",
      "d", " ", "b", "u", "t", " ", "J", "S", "O", "N", " ", "p", "a", "r", "s", "i", "n", "g",
      " ", "f", "a", "i", "l", "e", "d", ".">>

\* Extracted from partially parsed response
ExtractedContext == <<"E", "x", "t", "r", "a", "c", "t", "e", "d", " ", "f", "r", "o", "m", " ",
      "p", "a", "r", "t", "i", "a", "l", "l", "y", " ", "p", "a", "r", "s", "e", "d", " ", "r",
      "e", "s", "p", "o", "n", "s", "e">>

\* "overview"
Q_overview == <<"\"", "o", "v", "e", "r", "v", "i", "e", "w", "\"">>

\* "participants"
Q_participants == <<"\"", "p", "a", "r", "t", "i", "c", "i", "p", "a", "n", "t", "s", "\"">>

\* "key_points"
Q_key_points == <<"\"", "k", "e", "y", "_", "p", "o", "i", "n", "t", "s", "\"">>

\* none
S_none == <<"n", "o", "n", "e">>


\* ------------------------------------------------------------------------
\* Response Cleaner (summarize_transcript, lines 409-421)
\* ------------------------------------------------------------------------

\* Variant of StripFences: only the fence the text starts with is removed
StripFences_OpeningOnly(t) ==
    IF startswith(t, FenceJson) THEN strip(SubSeq(t, Len(FenceJson) + 1, Len(t)))
    ELSE IF startswith(t, Fence) THEN strip(SubSeq(t, Len(Fence) + 1, Len(t)))
    ELSE t

\* The markdown-fence removal
StripFences(t) ==
    IF startswith(t, FenceJson)
    THEN strip(replace(replace(t, FenceJson, <<>>), Fence, <<>>))
    ELSE IF startswith(t, Fence) THEN strip(replace(t, Fence, <<>>))
    ELSE t

\* The slice from the first "{" to the last "}"
SliceBraces(t) ==
    IF Contains(t, <<"{">>) /\ Contains(t, <<"}">>)
    THEN strip(Slice(t, find(t, <<"{">>), rfind(t, <<"}">>) + 1))
    ELSE t

Cleaner(response_text) == SliceBraces(StripFences(response_text))

\* ------------------------------------------------------------------------
\* The pydantic models (src/src/models.py).  A constructor yields <<object>>,
\* or <<>> when validation raises ValidationError.  pydantic 2 (model_dump)
\* does not coerce: a str field takes a str only, Optional[str] a str or None.
\* meeting_id and date have default factories and are left out.
\* ------------------------------------------------------------------------

ActionItem(description, assignee, deadline) ==
    IF /\ description.t = "str"
       /\ assignee.t \in {"str", "None"}
       /\ deadline.t \in {"str", "None"}
    THEN <<[description |-> description.s, assignee |-> assignee, deadline |-> deadline]>>
    ELSE <<>>

Decision(decision, assignee, context) ==
    IF /\ decision.t = "str"
       /\ assignee.t \in {"str", "None"}
       /\ context.t = "str"
    THEN <<[decision |-> decision.s, assignee |-> assignee, context |-> context.s]>>
    ELSE <<>>

DiscussionArea(title, analysis) ==
    IF title.t = "str" /\ analysis.t = "str"
    THEN <<[title |-> title.s, analysis |-> analysis.s]>>
    ELSE <<>>

\* The fields of MeetingTranscript without a default
RequiredFields == {"duration", "overview", "participants", "key_points", "next_steps",
                   "transcript"}

\* MeetingTranscript(**kw): kw is the record of the keyword arguments given.
\* Keywords that are no field of the model are ignored; a missing required
\* field or a value of the wrong type raises.  key_points, next_steps and
\* discussion_areas are given as sequences of model objects.
MeetingTranscript(kw) ==
    IF /\ RequiredFields \subseteq DOMAIN kw
       /\ kw.duration.t = "str"
       /\ kw.overview.t = "str"
       /\ kw.participants.t = "list"
       /\ \A i \in 1..Len(kw.participants.kids) : kw.participants.kids[i].t = "str"
       /\ kw.transcript.t = "str"
    THEN <<[duration         |-> kw.duration.s,
            overview         |-> kw.overview.s,
            participants     |-> [i \in 1..Len(kw.participants.kids) |-> kw.participants.kids[i].s],
            discussion_areas |-> IF "discussion_areas" \in DOMAIN kw THEN kw.discussion_areas ELSE <<>>,
            key_points       |-> kw.key_points,
            next_steps       |-> kw.next_steps,
            transcript       |-> kw.transcript.s]>>
    ELSE <<>>

\* ------------------------------------------------------------------------
\* Python operations on parsed JSON
\* ------------------------------------------------------------------------

\* d.get(key, default) of a dict d (a repeated key keeps its last value)
DictGet(d, key, default) ==
    LET I == {i \in 1..Len(d.kids) : d.kids[i].s = key}
    IN  IF I = {} THEN default ELSE d.kids[Max(I)].kids[1]

\* bool(v)
Truthy(v) ==
    CASE v.t = "None" -> FALSE
      [] v.t = "bool" -> v.s = L_true
      [] v.t = "num"  -> LET e == NextIn(v.s, 1, {"e", "E"})
                         IN  \/ v.s \in {L_NaN, L_Infinity, <<"-">> \o L_Infinity}
                             \/ \E i \in 1..(e - 1) : v.s[i] \in Digit \ {"0"}
      [] v.t = "str"  -> v.s # <<>>
      [] OTHER        -> v.kids # <<>>

\* a or b
PyOr(a, b) == IF Truthy(a) THEN a ELSE b

\* "for x in v" is possible (otherwise TypeError)
Iterable(v) == v.t \in {"list", "str", "dict"}

\* The items "for x in v" visits: the items of a list, the characters of a
\* str, the keys of a dict
IterItems(v) ==
    CASE v.t = "list" -> v.kids
      [] v.t = "str"  -> [i \in 1..Len(v.s) |-> PyStr(<<v.s[i]>>)]
      [] v.t = "dict" -> LET first == {i \in 1..Len(v.kids) :
                                          \A j \in 1..(i - 1) : v.kids[j].s # v.kids[i].s}
                             keys == SelectSeq([i \in 1..Len(v.kids) |-> i], LAMBDA i : i \in first)
                         IN  [n \in 1..Len(keys) |-> PyStr(v.kids[keys[n]].s)]
      [] OTHER        -> <<>>

\* ------------------------------------------------------------------------
\* Structured Mapper (summarize_transcript, lines 455-509)
\* ------------------------------------------------------------------------

\* Variant of MapAction: the assignee is taken as .get returns it, without
\* "or ''"
MapAction_AssigneeAsGiven(action_data) ==
    IF action_data.t # "dict" THEN <<>>
    ELSE ActionItem(DictGet(action_data, K_description, PyStr(<<>>)),
                    DictGet(action_data, K_assignee, PyStr(<<>>)),
                    DictGet(action_data, K_deadline, PyNone))

\* Lines 460-464: one next_steps entry; <<>> when .get or the validation raises
MapAction(action_data) ==
    IF action_data.t # "dict" THEN <<>>
    ELSE ActionItem(DictGet(action_data, K_description, PyStr(<<>>)),
                    PyOr(DictGet(action_data, K_assignee, PyStr(<<>>)), PyStr(<<>>)),
                    DictGet(action_data, K_deadline, PyNone))

\* Variant of MapPoint: a bare string becomes the context, not the decision
MapPoint_StringAsContext(point) ==
    IF point.t = "str" THEN Decision(PyStr(<<>>), PyStr(<<>>), point)
    ELSE Decision(DictGet(point, K_point, PyStr(<<>>)), PyStr(<<>>),
                  DictGet(point, K_context, PyStr(<<>>)))

\* Lines 469-482: one key_points entry of type str or dict
MapPoint(point) ==
    IF point.t = "str" THEN Decision(point, PyStr(<<>>), PyStr(<<>>))
    ELSE Decision(DictGet(point, K_point, PyStr(<<>>)), PyStr(<<>>),
                  DictGet(point, K_context, PyStr(<<>>)))

\* Variant of MapArea: .get without the '' default, so that a missing title or
\* analysis is None
MapArea_NoDefaults(area_data) ==
    DiscussionArea(DictGet(area_data, K_title, PyNone),
                   DictGet(area_data, K_analysis, PyNone))

\* Lines 488-492: one discussion_areas entry of type dict
MapArea(area_data) ==
    DiscussionArea(DictGet(area_data, K_title, PyStr(<<>>)),
                   DictGet(area_data, K_analysis, PyStr(<<>>)))

\* Lines 456-509: <<summary>>, or <<>> when any step raises ("except Exception:
\* return None")
Mapper(structured_data, transcript, duration_minutes) ==
    IF structured_data.t # "dict" THEN <<>>
    ELSE
    LET steps  == DictGet(structured_data, K_next_steps, PyList(<<>>))
        points == DictGet(structured_data, K_key_points, PyList(<<>>))
        areas  == DictGet(structured_data, K_discussion_areas, PyList(<<>>))
        actions   == [i \in 1..Len(IterItems(steps)) |-> MapAction(IterItems(steps)[i])]
        pointsIn  == SelectSeq(IterItems(points), LAMBDA p : p.t \in {"str", "dict"})
        decisions == [i \in 1..Len(pointsIn) |-> MapPoint(pointsIn[i])]
        areasIn   == SelectSeq(IterItems(areas), LAMBDA a : a.t = "dict")
        discussion_areas == [i \in 1..Len(areasIn) |-> MapArea(areasIn[i])]
    IN  IF \/ ~Iterable(steps) \/ ~Iterable(points) \/ ~Iterable(areas)
           \/ \E i \in 1..Len(actions) : actions[i] = <<>>
           \/ \E i \in 1..Len(decisions) : decisions[i] = <<>>
           \/ \E i \in 1..Len(discussion_areas) : discussion_areas[i] = <<>>
        THEN <<>>
        ELSE MeetingTranscript(
               [duration         |-> PyStr(DurationLabel(duration_minutes)),
                overview         |-> DictGet(structured_data, K_overview, PyStr(<<>>)),
                participants     |-> DictGet(structured_data, K_participants, PyList(<<>>)),
                discussion_areas |-> [i \in 1..Len(discussion_areas) |-> discussion_areas[i][1]],
                next_steps       |-> [i \in 1..Len(actions) |-> actions[i][1]],
                key_points       |-> [i \in 1..Len(decisions) |-> decisions[i][1]],
                transcript       |-> PyStr(transcript)])

\* ------------------------------------------------------------------------
\* Fallback Synthesizer
\* ------------------------------------------------------------------------

\* Variant of SimpleFallback: the transcript is stored stripped
SimpleFallback_StripsTranscript(transcript, duration_minutes) ==
    MeetingTranscript(
        [duration     |-> PyStr(DurationLabel(duration_minutes)),
         overview     |-> PyStr(FallbackOverview),
         participants |-> PyList(<<>>),
         next_steps   |-> <<>>,
         key_points   |-> <<>>,
         transcript   |-> PyStr(strip(transcript))])

\* Lines 444-451: the fallback summary summarize_transcript builds
SimpleFallback(transcript, duration_minutes) ==
    MeetingTranscript(
        [duration     |-> PyStr(DurationLabel(duration_minutes)),
         overview     |-> PyStr(FallbackOverview),
         participants |-> PyList(<<>>),
         next_steps   |-> <<>>,
         key_points   |-> <<>>,
         transcript   |-> PyStr(transcript)])

\* Lines 351-357: the placeholder built for an empty transcript
EmptyPlaceholder(duration_minutes) ==
    MeetingTranscript(
        [overview         |-> PyStr(NoTranscriptOverview),
         participants     |-> PyList(<<>>),
         action_items     |-> <<>>,
         decisions        |-> <<>>,
         duration_minutes |-> PyNum(Digits(duration_minutes))])

\* r'"overview":\s*"([^"]*)"' matches at m[i]
OverviewAt(m, i) ==
    LET q == NextNotIn(m, i + Len(Q_overview) + 1, PyWS)
    IN  /\ IsAt(m, Q_overview \o <<":">>, i)
        /\ q <= Len(m) /\ m[q] = "\""
        /\ NextIn(m, q + 1, {"\""}) <= Len(m)

\* Lines 130-135: group 1 of the first match, <<text>> or <<>> without a match
SalvageOverview(m) ==
    LET M == {i \in 1..Len(m) : OverviewAt(m, i)}
        q == NextNotIn(m, Min(M) + Len(Q_overview) + 1, PyWS)
    IN  IF M = {} THEN <<>> ELSE <<SubSeq(m, q + 1, NextIn(m, q + 1, {"\""}) - 1)>>

\* key + r':\s*\[(.*?)\]' (DOTALL) matches at m[i]
SectionAt(m, key, i) ==
    LET q == NextNotIn(m, i + Len(key) + 1, PyWS)
    IN  /\ IsAt(m, key \o <<":">>, i)
        /\ q <= Len(m) /\ m[q] = "["
        /\ NextIn(m, q + 1, {"]"}) <= Len(m)

\* re.search(key + r':\s*\[(.*?)\]', m, re.DOTALL): <<group 1>> or <<>>
SalvageSection(m, key) ==
    LET M == {i \in 1..Len(m) : SectionAt(m, key, i)}
        q == NextNotIn(m, Min(M) + Len(key) + 1, PyWS)
    IN  IF M = {} THEN <<>> ELSE <<SubSeq(m, q + 1, NextIn(m, q + 1, {"]"}) - 1)>>

\* r'"([^"]+)"' matches at g[i]
QuotedAt(g, i) ==
    /\ g[i] = "\""
    /\ i + 1 <= Len(g) /\ g[i + 1] # "\""
    /\ NextIn(g, i + 1, {"\""}) <= Len(g)

\* re.findall(r'"([^"]+)"', g) from g[i]
RECURSIVE FindAllQuoted(_, _)
FindAllQuoted(g, i) ==
    LET M == {k \in i..Len(g) : QuotedAt(g, k)}
        j == NextIn(g, Min(M) + 1, {"\""})
    IN  IF M = {} THEN <<>>
        ELSE <<SubSeq(g, Min(M) + 1, j - 1)>> \o FindAllQuoted(g, j + 1)

\* Lines 138-156: the quoted strings of the section, <<>> without a section
SalvageList(m, key) ==
    IF SalvageSection(m, key) = <<>> THEN <<>>
    ELSE FindAllQuoted(SalvageSection(m, key)[1], 1)

\* OllamaSummarizer._create_enhanced_fallback (lines 109-181)
_create_enhanced_fallback(malformed_response, transcript, duration_minutes) ==
    LET overview == IF SalvageOverview(malformed_response) = <<>>
                    THEN EnhancedFallbackOverview
                    ELSE SalvageOverview(malformed_response)[1]
        participants == SalvageList(malformed_response, Q_participants)
        key_points == SalvageList(malformed_response, Q_key_points)
    IN  MeetingTranscript(
            [duration     |-> PyStr(DurationLabel(duration_minutes)),
             overview     |-> PyStr(overview),
             participants |-> PyList([i \in 1..Len(participants) |-> PyStr(participants[i])]),
             next_steps   |-> <<>>,
             key_points   |-> [i \in 1..Len(key_points) |->
                                  Decision(PyStr(key_points[i]), PyStr(<<>>),
                                           PyStr(ExtractedContext))[1]],
             transcript   |-> PyStr(transcript)])

\* ------------------------------------------------------------------------
\* Inputs: transcripts, durations, model responses
\* ------------------------------------------------------------------------

\* k blanks
Pad(k) == [i \in 1..k |-> " "]

\* "", "none" in three spellings, and three transcripts that are not the
\* sentinel ("nones", "hi", "no ne")
TranscriptCores ==
    { <<>>,
      <<"n", "o", "n", "e">>, <<"N", "o", "n", "e">>, <<"N", "O", "N", "E">>,
      <<"n", "o", "n", "e", "s">>, <<"h", "i">>, <<"n", "o", " ", "n", "e">> }

Transcripts == {Pad(a) \o c \o Pad(b) : a \in 0..MaxPad, b \in 0..MaxPad, c \in TranscriptCores}

Durations == 0..MaxDuration

\* {"overview": "Sync", "participants": ["Al", "Bo"], "discussion_areas": [{"title": "T", "analysis": "A"}], "key_points": ["kp", {"point": "p", "context": "c"}], "next_steps": [{"description": "do", "assignee": null, "deadline": "Fri"}]}
R_Valid == <<"{", "\"", "o", "v", "e", "r", "v", "i", "e", "w", "\"", ":", " ", "\"", "S", "y",
      "n", "c", "\"", ",", " ", "\"", "p", "a", "r", "t", "i", "c", "i", "p", "a", "n", "t", "s",
      "\"", ":", " ", "[", "\"", "A", "l", "\"", ",", " ", "\"", "B", "o", "\"", "]", ",", " ",
      "\"", "d", "i", "s", "c", "u", "s", "s", "i", "o", "n", "_", "a", "r", "e", "a", "s", "\"",
      ":", " ", "[", "{", "\"", "t", "i", "t", "l", "e", "\"", ":", " ", "\"", "T", "\"", ",",
      " ", "\"", "a", "n", "a", "l", "y", "s", "i", "s", "\"", ":", " ", "\"", "A", "\"", "}",
      "]", ",", " ", "\"", "k", "e", "y", "_", "p", "o", "i", "n", "t", "s", "\"", ":", " ", "[",
      "\"", "k", "p", "\"", ",", " ", "{", "\"", "p", "o", "i", "n", "t", "\"", ":", " ", "\"",
      "p", "\"", ",", " ", "\"", "c", "o", "n", "t", "e", "x", "t", "\"", ":", " ", "\"", "c",
      "\"", "}", "]", ",", " ", "\"", "n", "e", "x", "t", "_", "s", "t", "e", "p", "s", "\"",
      ":", " ", "[", "{", "\"", "d", "e", "s", "c", "r", "i", "p", "t", "i", "o", "n", "\"", ":",
      " ", "\"", "d", "o", "\"", ",", " ", "\"", "a", "s", "s", "i", "g", "n", "e", "e", "\"",
      ":", " ", "n", "u", "l", "l", ",", " ", "\"", "d", "e", "a", "d", "l", "i", "n", "e", "\"",
      ":", " ", "\"", "F", "r", "i", "\"", "}", "]", "}">>

\* ```json\n{"overview": "Sync", "participants": ["Al"]}\n```
R_FencedJson == <<Backtick, Backtick, Backtick, "j", "s", "o", "n", "\n", "{", "\"", "o", "v",
      "e", "r", "v", "i", "e", "w", "\"", ":", " ", "\"", "S", "y", "n", "c", "\"", ",", " ",
      "\"", "p", "a", "r", "t", "i", "c", "i", "p", "a", "n", "t", "s", "\"", ":", " ", "[",
      "\"", "A", "l", "\"", "]", "}", "\n", Backtick, Backtick, Backtick>>

\* ```\n{"overview": "Sync"}\n```
R_Fenced == <<Backtick, Backtick, Backtick, "\n", "{", "\"", "o", "v", "e", "r", "v", "i", "e",
      "w", "\"", ":", " ", "\"", "S", "y", "n", "c", "\"", "}", "\n", Backtick, Backtick,
      Backtick>>

\*  Here is the JSON: {"overview": "Sync", "key_points": ["kp"]} Hope it helps. 
R_Preamble == <<" ", "H", "e", "r", "e", " ", "i", "s", " ", "t", "h", "e", " ", "J", "S", "O",
      "N", ":", " ", "{", "\"", "o", "v", "e", "r", "v", "i", "e", "w", "\"", ":", " ", "\"",
      "S", "y", "n", "c", "\"", ",", " ", "\"", "k", "e", "y", "_", "p", "o", "i", "n", "t", "s",
      "\"", ":", " ", "[", "\"", "k", "p", "\"", "]", "}", " ", "H", "o", "p", "e", " ", "i",
      "t", " ", "h", "e", "l", "p", "s", ".", " ">>

\* {"overview": "Sync", "participants": ["Al", "Bo"],}
R_TrailingComma == <<"{", "\"", "o", "v", "e", "r", "v", "i", "e", "w", "\"", ":", " ", "\"",
      "S", "y", "n", "c", "\"", ",", " ", "\"", "p", "a", "r", "t", "i", "c", "i", "p", "a", "n",
      "t", "s", "\"", ":", " ", "[", "\"", "A", "l", "\"", ",", " ", "\"", "B", "o", "\"", "]",
      ",", "}">>

\* {"overview": "Sync", "participants": [John]}
R_UnquotedOne == <<"{", "\"", "o", "v", "e", "r", "v", "i", "e", "w", "\"", ":", " ", "\"", "S",
      "y", "n", "c", "\"", ",", " ", "\"", "p", "a", "r", "t", "i", "c", "i", "p", "a", "n", "t",
      "s", "\"", ":", " ", "[", "J", "o", "h", "n", "]", "}">>

\* {"overview": "Sync", "participants": [John, Sarah]}
R_UnquotedTwo == <<"{", "\"", "o", "v", "e", "r", "v", "i", "e", "w", "\"", ":", " ", "\"", "S",
      "y", "n", "c", "\"", ",", " ", "\"", "p", "a", "r", "t", "i", "c", "i", "p", "a", "n", "t",
      "s", "\"", ":", " ", "[", "J", "o", "h", "n", ",", " ", "S", "a", "r", "a", "h", "]", "}">>

\* {overview: "Sync"}
R_UnquotedKey == <<"{", "o", "v", "e", "r", "v", "i", "e", "w", ":", " ", "\"", "S", "y", "n",
      "c", "\"", "}">>

\* {'overview': 'Sync'}
R_SingleQuotes == <<"{", "'", "o", "v", "e", "r", "v", "i", "e", "w", "'", ":", " ", "'", "S",
      "y", "n", "c", "'", "}">>

\* Sorry, I cannot summarise this meeting.
R_Prose == <<"S", "o", "r", "r", "y", ",", " ", "I", " ", "c", "a", "n", "n", "o", "t", " ", "s",
      "u", "m", "m", "a", "r", "i", "s", "e", " ", "t", "h", "i", "s", " ", "m", "e", "e", "t",
      "i", "n", "g", ".">>

\* {"overview": "Budget", "participants": ["Al" "Bo"], "key_points": ["Cut costs" "Hire"]}
R_Salvageable == <<"{", "\"", "o", "v", "e", "r", "v", "i", "e", "w", "\"", ":", " ", "\"", "B",
      "u", "d", "g", "e", "t", "\"", ",", " ", "\"", "p", "a", "r", "t", "i", "c", "i", "p", "a",
      "n", "t", "s", "\"", ":", " ", "[", "\"", "A", "l", "\"", " ", "\"", "B", "o", "\"", "]",
      ",", " ", "\"", "k", "e", "y", "_", "p", "o", "i", "n", "t", "s", "\"", ":", " ", "[",
      "\"", "C", "u", "t", " ", "c", "o", "s", "t", "s", "\"", " ", "\"", "H", "i", "r", "e",
      "\"", "]", "}">>

\* {"overview": "Sync", "next_steps": ["call Bob"]}
R_StepIsString == <<"{", "\"", "o", "v", "e", "r", "v", "i", "e", "w", "\"", ":", " ", "\"", "S",
      "y", "n", "c", "\"", ",", " ", "\"", "n", "e", "x", "t", "_", "s", "t", "e", "p", "s",
      "\"", ":", " ", "[", "\"", "c", "a", "l", "l", " ", "B", "o", "b", "\"", "]", "}">>

\* {"overview": null, "participants": ["Al"]}
R_OverviewNull == <<"{", "\"", "o", "v", "e", "r", "v", "i", "e", "w", "\"", ":", " ", "n", "u",
      "l", "l", ",", " ", "\"", "p", "a", "r", "t", "i", "c", "i", "p", "a", "n", "t", "s", "\"",
      ":", " ", "[", "\"", "A", "l", "\"", "]", "}">>

\* [1, 2]
R_Array == <<"[", "1", ",", " ", "2", "]">>

\*   
R_Blank == <<" ", " ">>

\* {}
R_Empty == <<"{", "}">>


\* {"overview": "Sync", "key_points": [{"context": "c"}, ""]}
R_PointMissing == <<"{", "\"", "o", "v", "e", "r", "v", "i", "e", "w", "\"", ":", " ", "\"", "S",
      "y", "n", "c", "\"", ",", " ", "\"", "k", "e", "y", "_", "p", "o", "i", "n", "t", "s",
      "\"", ":", " ", "[", "{", "\"", "c", "o", "n", "t", "e", "x", "t", "\"", ":", " ", "\"",
      "c", "\"", "}", ",", " ", "\"", "\"", "]", "}">>

\* The message contents the model endpoint may answer with
Responses ==
    { R_Valid, R_FencedJson, R_Fenced, R_Preamble, R_TrailingComma, R_UnquotedOne,
      R_UnquotedTwo, R_UnquotedKey, R_SingleQuotes, R_Prose, R_Salvageable,
      R_StepIsString, R_OverviewNull, R_Array, R_Blank, R_Empty,
      R_PointMissing }

\* ------------------------------------------------------------------------
\* OllamaSummarizer.summarize_transcript as a state machine
\* ------------------------------------------------------------------------

VARIABLES
    pc,               \* position in summarize_transcript
    transcript,       \* argument
    duration_minutes, \* argument
    attempt,          \* loop variable of the retry loop
    ollama_response,  \* ollama_response['message']['content']
    response_text,    \* local variable
    structured_data,  \* <<parsed JSON>>, <<>> while unset
    trace,            \* the calls made so far, in order
    returned,         \* "pending", "None" or "MeetingTranscript"
    summary,          \* <<the MeetingTranscript returned>>, else <<>>
    json_text,        \* _repair_json: argument
    repaired,         \* _repair_json: local variable
    repair_index,     \* _repair_json: position of the loop in the list "repairs"
    repair_result,    \* _repair_json: <<the str returned>>, <<>> for None
    saved,            \* to_json_file: <<the MeetingTranscript it was called on>>
    json_file,        \* to_json_file: <<the JSON object written>>, <<>> before
    lengths,          \* timeout computation: len(transcript) of each call so far
    timeouts,         \* timeout computation: timeout_seconds of each call so far
    state_file,       \* SimpleRecorder: <<content of recorder_state.json>>, <<>> if none
    recording,        \* AudioRecorder.recording
    paused,           \* AudioRecorder.paused
    audio_data,       \* AudioRecorder.audio_data: the number of chunks held
    wav_files,        \* the recordings written by save_recording
    clock,            \* datetime.now(), counted in calls
    last_call,        \* SimpleRecorder: the last call, its result, the state before it
    command,          \* CLI: the command run, "none" before
    stack,            \* CLI: the command's body and, above it, the signal handlers running
    recording_started,  \* CLI: the command's local recording_started
    processing_started, \* CLI: the start command's local processing_started
    exit_code,        \* CLI: <<code>> once the process has exited
    signals,          \* CLI: the signals delivered so far
    stops,            \* CLI: calls of stop_recording made to stop and process
    begun,            \* CLI: calls of process_recording
    ended,            \* CLI: calls of process_recording that returned or raised
    summary_files,    \* CLI: the recordings whose summary file was written
    model_name,       \* OllamaSummarizer.model_name
    models_sent,      \* the model argument of each client.chat call so far
    cb_pc,            \* audio thread: where _audio_callback stands
    op_pc,            \* main thread: where its AudioRecorder call stands
    pause_lock,       \* AudioRecorder.pause_lock: "free" or the thread holding it
    audio_lock,       \* AudioRecorder.audio_lock: "free" or the thread holding it
    appends,          \* the value of paused at each append to audio_data
    stop_pc,          \* the stop command: where it stands
    stop_found,       \* the stop command: whether pgrep found a start process
    proc_pc,          \* process_recording: where the call stands
    audio_exists,     \* process_recording: the WAV file audio_path exists
    state_exists,     \* process_recording: recorder_state.json exists
    proc_duration,    \* process_recording: its local duration_minutes
    transcript_data,  \* process_recording: what transcribe_audio returned
    summary_result,   \* what OllamaSummarizer.summarize_transcript returned
    summary_data,     \* process_recording: what summarize_transcript returned
    summary_written,  \* the summary JSON file, once written
    caller_pc,        \* start_ollama_server: where each caller stands
    server,           \* the Ollama server: "down", "starting" or "responding"
    spawn_log,        \* the state of the server at each "ollama serve" spawned
    waited,           \* start_ollama_server: each caller's polls so far
    folders,          \* FoldersManager: the list of folders.json
    next_id,          \* FoldersManager: the next fresh folder id
    folders_file      \* the list saved in folders.json

\* The variables of _repair_json, which summarize_transcript never calls
repairVars == <<json_text, repaired, repair_index, repair_result>>

\* The variables of MeetingTranscript.to_json_file
modelsVars == <<saved, json_file>>

\* The variables of the timeout computation on transcripts given by length
timeoutVars == <<lengths, timeouts>>

\* The variables of SimpleRecorder and its AudioRecorder
recorderVars == <<state_file, recording, paused, audio_data, wav_files, clock, last_call>>

\* The variables of the start and record commands
cliVars == <<command, stack, recording_started, processing_started, exit_code,
             signals, stops, begun, ended, summary_files>>

\* The variables of one summarize_transcript call
summarizeVars == <<transcript, duration_minutes, attempt, ollama_response, response_text,
                   structured_data, trace, returned, summary>>

\* The summarizer object's model name, and the names it has sent
clientVars == <<model_name, models_sent>>

\* The threads of AudioRecorder and its locks
threadVars == <<cb_pc, op_pc, pause_lock, audio_lock, appends>>

\* The stop command
stopVars == <<stop_pc, stop_found>>

\* A process_recording call and the files it works on
processVars ==
    <<proc_pc, audio_exists, state_exists, proc_duration, transcript_data,
      summary_result, summary_data, summary_written>>

\* The callers of start_ollama_server and the server
ollamaVars == <<caller_pc, server, spawn_log, waited>>

\* The FoldersManager
foldersVars == <<folders, next_id, folders_file>>

\* The variables of the components defined after the commands
laterVars == <<threadVars, stopVars, processVars, ollamaVars, foldersVars>>

\* The processes that may call start_ollama_server at the same time
MaxCallers == 2

Callers == 1..MaxCallers

\* The variables of the components defined after the recorder
otherVars == <<clientVars, laterVars>>

\* What a summarize_transcript call cannot touch
outsideCall ==
    <<repairVars, modelsVars, timeoutVars, recorderVars, cliVars, laterVars>>

\* What the steps of summarize_transcript other than the model call and the
\* service re-verification cannot touch
outsideSummarizer == <<outsideCall, clientVars>>

\* The variables defined before the commands' and the later components'
earlierVars == <<pc, summarizeVars, repairVars, modelsVars, timeoutVars>>

\* What the commands and the recorder cannot touch
outsideCli ==
    <<pc, summarizeVars, repairVars, modelsVars, timeoutVars, otherVars>>

vars == <<pc, transcript, duration_minutes, attempt, ollama_response, response_text,
          structured_data, trace, returned, summary, repairVars, modelsVars, timeoutVars,
          recorderVars, cliVars, otherVars>>

\* Variant of max_retries: one attempt too many
max_retries_OneMore == 3 + 1

\* Line 371
max_retries == 3
\* Variant of timeout_cap: a ceiling of two and a half hours
timeout_cap_Higher == 7200 + 1800
\* Line 401: time.sleep(5)
BackoffSeconds == 5
\* Lines 365-367
base_timeout == 1800
timeout_increment == 600
timeout_bucket == 10000
timeout_cap == 7200

\* Lines 365-367: the timeout for a transcript of n characters
timeout_seconds(n) ==
    LET t == base_timeout + (n \div timeout_bucket) * timeout_increment
    IN  IF t < timeout_cap THEN t ELSE timeout_cap

\* One entry of the trace: the operation, its argument (0 when it has none)
\* and whether it returned normally (FALSE: it raised)
Event(op, arg, ok) == [op |-> op, arg |-> arg, ok |-> ok]

\* Variant of IsEmptyTranscript: the sentinel is compared without lower()
IsEmptyTranscript_CaseSensitive(t) ==
    \/ t = <<>>
    \/ strip(t) = <<>>
    \/ strip(t) = S_none

\* Line 349: not transcript or transcript.strip() == "" or
\* transcript.lower().strip() == "none"
IsEmptyTranscript(t) ==
    \/ t = <<>>
    \/ strip(t) = <<>>
    \/ strip(lower(t)) = S_none

\* The fallback models, in the order they are tried, that a pull can give
MaxFallbacks == 2

\* __init__, line 39: the default model; line 213: the fallback models
ConfiguredModel == "llama3.2:3b"
fallback_models == <<"llama3.2:3b", "gemma3:4b", "qwen3:8b", "deepseek-r1:8b">>

Init ==
    /\ pc = "idle"
    /\ transcript = <<>>
    /\ duration_minutes = 0
    /\ attempt = 0
    /\ ollama_response = <<>>
    /\ response_text = <<>>
    /\ structured_data = <<>>
    /\ trace = <<>>
    /\ returned = "pending"
    /\ summary = <<>>
    /\ json_text = <<>>
    /\ repaired = <<>>
    /\ repair_index = 0
    /\ repair_result = <<>>
    /\ saved = <<>>
    /\ json_file = <<>>
    /\ lengths = <<>>
    /\ timeouts = <<>>
    /\ state_file = <<>>
    /\ recording = FALSE
    /\ paused = FALSE
    /\ audio_data = 0
    /\ wav_files = {}
    /\ clock = 0
    /\ last_call = <<>>
    /\ command = "none"
    /\ stack = <<>>
    /\ recording_started = FALSE
    /\ processing_started = FALSE
    /\ exit_code = <<>>
    /\ signals = <<>>
    /\ stops = 0
    /\ begun = 0
    /\ ended = 0
    /\ summary_files = {}
    /\ model_name = ConfiguredModel
    /\ models_sent = <<>>
    /\ cb_pc = "idle"
    /\ op_pc = "none"
    /\ pause_lock = "free"
    /\ audio_lock = "free"
    /\ appends = <<>>
    /\ stop_pc = "none"
    /\ stop_found = FALSE
    /\ proc_pc = "idle"
    /\ audio_exists = FALSE
    /\ state_exists = FALSE
    /\ proc_duration = 10
    /\ transcript_data = <<>>
    /\ summary_result = <<>>
    /\ summary_data = <<>>
    /\ summary_written = <<>>
    /\ caller_pc = [c \in Callers |-> "idle"]
    /\ server = "down"
    /\ spawn_log = <<>>
    /\ waited = [c \in Callers |-> 0]
    /\ folders = <<>>
    /\ next_id = 1
    /\ folders_file = <<>>

\* "return obj" for obj = <<MeetingTranscript>>; obj = <<>> stands for an
\* exception raised on the way, which lines 511-518 turn into "return None"
Return(obj) ==
    /\ pc' = "done"
    /\ returned' = IF obj = <<>> THEN "None" ELSE "MeetingTranscript"
    /\ summary' = obj

\* Lines 347-368: the call, the empty-transcript short circuit, the prompt
Call(t, d) ==
    /\ pc = "idle"
    /\ transcript' = t
    /\ duration_minutes' = d
    /\ IF IsEmptyTranscript(t)
       THEN Return(EmptyPlaceholder(d))
       ELSE /\ pc' = "attempt"
            /\ UNCHANGED <<returned, summary>>
    /\ UNCHANGED <<attempt, ollama_response, response_text, structured_data, trace>>
    /\ UNCHANGED outsideSummarizer

\* Lines 372-374: one iteration of "for attempt in range(max_retries)" begins
BeginAttempt ==
    /\ pc = "attempt"
    /\ trace' = Append(trace, Event("attempt", attempt, TRUE))
    /\ pc' = IF attempt > 0 THEN "ensure" ELSE "chat"
    /\ UNCHANGED <<transcript, duration_minutes, attempt, ollama_response, response_text,
                   structured_data, returned, summary>>
    /\ UNCHANGED outsideSummarizer

\* What the service and "ollama list" / "ollama pull" can answer to one
\* _ensure_ollama_ready: the service runs or can be started or not; the
\* model is there (listed, or pulled), or the pull fails and the fallback
\* model number `fallback` is the first one whose pull succeeds, or none is
EnsureOutcomes ==
    [service : BOOLEAN, model : {"available", "fallback", "none"},
     fallback : 1..MaxFallbacks]

\* _ensure_model_available, lines 183-227: self.model_name afterwards
ModelAfter(name, outcome) ==
    IF outcome.model = "fallback" THEN fallback_models[outcome.fallback]
    ELSE name

\* _ensure_ollama_ready, lines 229-245: True, or an exception (lines 236, 242)
EnsureResult(outcome) == outcome.service /\ outcome.model # "none"

\* Variant of EnsureOllamaReady: an exception of the re-verification leaves
\* the retry loop and ends the call at once
EnsureOllamaReady_RaisesOut(outcome) ==
    /\ pc = "ensure"
    /\ trace' = Append(trace, Event("_ensure_ollama_ready", 0, EnsureResult(outcome)))
    /\ model_name' = IF outcome.service THEN ModelAfter(model_name, outcome)
                     ELSE model_name
    /\ IF EnsureResult(outcome)
       THEN pc' = "chat" /\ UNCHANGED <<returned, summary>>
       ELSE Return(<<>>)
    /\ UNCHANGED <<transcript, duration_minutes, attempt, ollama_response, response_text,
                   structured_data, models_sent>>
    /\ UNCHANGED outsideCall

\* Lines 377-379: self._ensure_ollama_ready() returns, or raises
EnsureOllamaReady(outcome) ==
    /\ pc = "ensure"
    /\ trace' = Append(trace, Event("_ensure_ollama_ready", 0, EnsureResult(outcome)))
    /\ model_name' = IF outcome.service THEN ModelAfter(model_name, outcome)
                     ELSE model_name
    /\ pc' = IF EnsureResult(outcome) THEN "chat" ELSE "except"
    /\ UNCHANGED <<transcript, duration_minutes, attempt, ollama_response, response_text,
                   structured_data, returned, summary, models_sent>>
    /\ UNCHANGED outsideCall

\* Lines 381-393: self.client.chat returns a response; break
ChatReturns(r) ==
    /\ pc = "chat"
    /\ trace' = Append(trace, Event("chat", timeout_seconds(Len(transcript)), TRUE))
    /\ models_sent' = Append(models_sent, model_name)
    /\ ollama_response' = r
    /\ pc' = "parse"
    /\ UNCHANGED <<transcript, duration_minutes, attempt, response_text, structured_data,
                   returned, summary, model_name>>
    /\ UNCHANGED outsideCall

\* Lines 381-392, 395: self.client.chat raises
ChatRaises ==
    /\ pc = "chat"
    /\ trace' = Append(trace, Event("chat", timeout_seconds(Len(transcript)), FALSE))
    /\ models_sent' = Append(models_sent, model_name)
    /\ pc' = "except"
    /\ UNCHANGED <<transcript, duration_minutes, attempt, ollama_response, response_text,
                   structured_data, returned, summary, model_name>>
    /\ UNCHANGED outsideCall

\* Variant of AttemptFailed: the last failure is swallowed and the call goes
\* on to the fallback summary instead of re-raising
AttemptFailed_FallsBack ==
    /\ pc = "except"
    /\ IF attempt = max_retries - 1
       THEN /\ pc' = "fallback"
            /\ UNCHANGED <<attempt, trace>>
       ELSE /\ trace' = Append(trace, Event("sleep", BackoffSeconds, TRUE))
            /\ attempt' = attempt + 1
            /\ pc' = "attempt"
    /\ UNCHANGED <<transcript, duration_minutes, ollama_response, response_text,
                   structured_data, returned, summary>>
    /\ UNCHANGED outsideSummarizer

\* Variant of AttemptFailed: the wait grows with the attempt number
AttemptFailed_GrowingBackoff ==
    /\ pc = "except"
    /\ IF attempt = max_retries - 1
       THEN /\ Return(<<>>)
            /\ UNCHANGED <<attempt, trace>>
       ELSE /\ trace' = Append(trace, Event("sleep", BackoffSeconds * (attempt + 1), TRUE))
            /\ attempt' = attempt + 1
            /\ pc' = "attempt"
            /\ UNCHANGED <<returned, summary>>
    /\ UNCHANGED <<transcript, duration_minutes, ollama_response, response_text,
                   structured_data>>
    /\ UNCHANGED outsideSummarizer

\* Variant of AttemptFailed: the handler never re-raises
AttemptFailed_NeverGivesUp ==
    /\ pc = "except"
    /\ trace' = Append(trace, Event("sleep", BackoffSeconds, TRUE))
    /\ attempt' = attempt + 1
    /\ pc' = "attempt"
    /\ UNCHANGED <<transcript, duration_minutes, ollama_response, response_text,
                   structured_data, returned, summary>>
    /\ UNCHANGED outsideSummarizer

\* Lines 395-401: the handler of a failed attempt: re-raise on the last
\* attempt (caught at line 511: return None), else sleep and go on
AttemptFailed ==
    /\ pc = "except"
    /\ IF attempt = max_retries - 1
       THEN /\ Return(<<>>)
            /\ UNCHANGED <<attempt, trace>>
       ELSE /\ trace' = Append(trace, Event("sleep", BackoffSeconds, TRUE))
            /\ attempt' = attempt + 1
            /\ pc' = "attempt"
            /\ UNCHANGED <<returned, summary>>
    /\ UNCHANGED <<transcript, duration_minutes, ollama_response, response_text,
                   structured_data>>
    /\ UNCHANGED outsideSummarizer

\* Variant of CleanAndParse: the repair runs whether or not the text parsed
CleanAndParse_AlwaysRepairs ==
    /\ pc = "parse"
    /\ LET cleaned == Cleaner(strip(ollama_response))
           parsed == json_loads(cleaned)
       IN  /\ response_text' = cleaned
           /\ trace' = trace \o <<Event("cleaner", 0, TRUE), Event("json_loads", 0, parsed.ok)>>
           /\ structured_data' = IF parsed.ok THEN <<parsed.val>> ELSE <<>>
           /\ pc' = "repair"
    /\ UNCHANGED <<transcript, duration_minutes, attempt, ollama_response, returned, summary>>
    /\ UNCHANGED outsideSummarizer

\* Lines 403-430: strip, Cleaner, first json.loads
CleanAndParse ==
    /\ pc = "parse"
    /\ LET cleaned == Cleaner(strip(ollama_response))
           parsed == json_loads(cleaned)
       IN  /\ response_text' = cleaned
           /\ trace' = trace \o <<Event("cleaner", 0, TRUE), Event("json_loads", 0, parsed.ok)>>
           /\ structured_data' = IF parsed.ok THEN <<parsed.val>> ELSE <<>>
           /\ pc' = IF parsed.ok THEN "map" ELSE "repair"
    /\ UNCHANGED <<transcript, duration_minutes, attempt, ollama_response, returned, summary>>
    /\ UNCHANGED outsideSummarizer

\* Lines 434-441: the inline repair (the unquoted-elements substitution
\* only) and the second json.loads
InlineRepair ==
    /\ pc = "repair"
    /\ LET repaired_json == SubUnquotedElements(response_text, 1)
           parsed == json_loads(repaired_json)
       IN  /\ trace' = trace \o <<Event("repair", 0, TRUE), Event("json_loads", 0, parsed.ok)>>
           /\ structured_data' = IF parsed.ok THEN <<parsed.val>> ELSE <<>>
           /\ pc' = IF parsed.ok THEN "map" ELSE "fallback"
    /\ UNCHANGED <<transcript, duration_minutes, attempt, ollama_response, response_text,
                   returned, summary>>
    /\ UNCHANGED outsideSummarizer

\* Variant of Map: the summary is given the stripped transcript
Map_StripsTranscript ==
    /\ pc = "map"
    /\ LET obj == Mapper(structured_data[1], strip(transcript), duration_minutes)
       IN  /\ trace' = Append(trace, Event("mapper", 0, obj # <<>>))
           /\ Return(obj)
    /\ UNCHANGED <<transcript, duration_minutes, attempt, ollama_response, response_text,
                   structured_data>>
    /\ UNCHANGED outsideSummarizer

\* Lines 455-509: the Structured Mapper; an exception in it returns None
Map ==
    /\ pc = "map"
    /\ LET obj == Mapper(structured_data[1], transcript, duration_minutes)
       IN  /\ trace' = Append(trace, Event("mapper", 0, obj # <<>>))
           /\ Return(obj)
    /\ UNCHANGED <<transcript, duration_minutes, attempt, ollama_response, response_text,
                   structured_data>>
    /\ UNCHANGED outsideSummarizer

\* Lines 441-453: the fallback summary
Fallback ==
    /\ pc = "fallback"
    /\ trace' = Append(trace, Event("fallback", 0, TRUE))
    /\ Return(SimpleFallback(transcript, duration_minutes))
    /\ UNCHANGED <<transcript, duration_minutes, attempt, ollama_response, response_text,
                   structured_data>>
    /\ UNCHANGED outsideSummarizer

Next ==
    \/ \E t \in Transcripts, d \in Durations : Call(t, d)
    \/ BeginAttempt
    \/ \E outcome \in EnsureOutcomes : EnsureOllamaReady(outcome)
    \/ \E r \in Responses : ChatReturns(r)
    \/ ChatRaises
    \/ AttemptFailed
    \/ CleanAndParse
    \/ InlineRepair
    \/ Map
    \/ Fallback

Spec == Init /\ [][Next]_vars

\* The steps of a call that wait for something outside it: the service
\* re-verification, the model call, the backoff wait; and the steps around
\* them
CallStep ==
    \/ BeginAttempt
    \/ \E outcome \in EnsureOutcomes : EnsureOllamaReady(outcome)
    \/ \E r \in Responses : ChatReturns(r)
    \/ ChatRaises
    \/ AttemptFailed
    \/ Fallback

\* Every model call, re-verification and backoff wait returns, and the code
\* between them runs on: a step of CallStep that can be taken is taken, and
\* the call does not stay for ever before CleanAndParse, InlineRepair or
\* Map, which compute without waiting for anything
FairSpec ==
    /\ Init /\ [][Next]_vars
    /\ WF_vars(CallStep)
    /\ []<>(pc \notin {"parse", "repair", "map"})

\* ------------------------------------------------------------------------
\* The Structured Mapper on parsed JSON values (lines 455-509 reached with any
\* object json.loads can produce)
\* ------------------------------------------------------------------------

T_Sync == <<"S", "y", "n", "c">>
T_Al   == <<"A", "l">>
T_Bo   == <<"B", "o">>
T_do   == <<"d", "o">>
T_Fri  == <<"F", "r", "i">>
T_kp   == <<"k", "p">>
T_call == <<"c", "a", "l", "l">>
T_name == <<"n", "a", "m", "e">>

\* A JSON object from the members given as <<key, <<value>>>> pairs; a pair
\* whose second part is <<>> stands for an absent key
Obj(pairs) ==
    LET present == SelectSeq(pairs, LAMBDA kv : kv[2] # <<>>)
    IN  PyDict([i \in 1..Len(present) |-> PyMember(present[i][1], present[i][2][1])])

\* next_steps entries
A_full  == Obj(<< <<K_description, <<PyStr(T_do)>>>>, <<K_assignee, <<PyStr(T_Bo)>>>>,
                  <<K_deadline, <<PyStr(T_Fri)>>>> >>)
A_bare  == Obj(<< <<K_description, <<PyStr(T_do)>>>> >>)
A_null  == Obj(<< <<K_description, <<PyStr(T_do)>>>>, <<K_assignee, <<PyNone>>>>,
                  <<K_deadline, <<PyNone>>>> >>)
A_empty == Obj(<< <<K_description, <<PyStr(T_do)>>>>, <<K_assignee, <<PyStr(<<>>)>>>>,
                  <<K_deadline, <<PyStr(T_Fri)>>>> >>)
A_zero  == Obj(<< <<K_description, <<PyStr(T_do)>>>>, <<K_assignee, <<PyNum(<<"0">>)>>>> >>)
A_num   == Obj(<< <<K_description, <<PyStr(T_do)>>>>, <<K_assignee, <<PyNum(<<"5">>)>>>> >>)

\* key_points entries
P_full      == Obj(<< <<K_point, <<PyStr(<<"p">>)>>>>, <<K_context, <<PyStr(<<"c">>)>>>> >>)
P_pointOnly == Obj(<< <<K_point, <<PyStr(<<"q">>)>>>> >>)
P_pointNull == Obj(<< <<K_point, <<PyNone>>>>, <<K_context, <<PyStr(<<"c">>)>>>> >>)

\* discussion_areas entries
D_full         == Obj(<< <<K_title, <<PyStr(<<"T">>)>>>>, <<K_analysis, <<PyStr(<<"A">>)>>>> >>)
D_titleOnly    == Obj(<< <<K_title, <<PyStr(<<"U">>)>>>> >>)
D_analysisOnly == Obj(<< <<K_analysis, <<PyStr(<<"B">>)>>>> >>)

\* What each top-level key may hold: <<>> (key absent) or <<value>>
OverviewValues ==
    { <<>>, <<PyStr(T_Sync)>>, <<PyNone>>, <<PyNum(<<"5">>)>> }

ParticipantsValues ==
    { <<>>,
      <<PyList(<<PyStr(T_Al), PyStr(T_Bo)>>)>>,
      <<PyList(<<PyStr(T_Al), PyNone>>)>>,
      <<PyList(<<PyNum(<<"5">>), Obj(<< <<T_name, <<PyStr(T_Al)>>>> >>)>>)>>,
      <<PyNone>>,
      <<PyStr(T_Al)>> }

NextStepsValues ==
    { <<>>,
      <<PyList(<<A_full, A_bare>>)>>,
      <<PyList(<<A_null, A_empty>>)>>,
      <<PyList(<<A_zero>>)>>,
      <<PyList(<<A_num>>)>>,
      <<PyList(<<A_full, PyStr(T_call)>>)>>,
      <<PyList(<<PyNone, A_full>>)>>,
      <<PyNone>> }

KeyPointsValues ==
    { <<>>,
      <<PyList(<<PyStr(T_kp), P_full>>)>>,
      <<PyList(<<P_full, PyStr(T_kp), P_pointOnly>>)>>,
      <<PyList(<<PyStr(T_kp), PyNum(<<"5">>)>>)>>,
      <<PyList(<<P_pointNull, PyStr(T_kp)>>)>>,
      <<PyNone>> }

DiscussionAreasValues ==
    { <<>>,
      <<PyList(<<D_full>>)>>,
      <<PyList(<<D_titleOnly, D_analysisOnly>>)>>,
      <<PyList(<<PyStr(<<"x">>), D_full>>)>>,
      <<PyNone>> }

\* The parsed objects handed to the mapper
StructuredInputs ==
    { Obj(<< <<K_overview, o>>, <<K_participants, p>>, <<K_discussion_areas, a>>,
             <<K_key_points, k>>, <<K_next_steps, n>> >>) :
        o \in OverviewValues, p \in ParticipantsValues, a \in DiscussionAreasValues,
        k \in KeyPointsValues, n \in NextStepsValues }

\* Lines 424/438 and 455: json.loads has produced sd and the mapper is entered
MapperEntry(sd, t, d) ==
    /\ pc = "idle"
    /\ structured_data' = <<sd>>
    /\ transcript' = t
    /\ duration_minutes' = d
    /\ pc' = "map"
    /\ UNCHANGED <<attempt, ollama_response, response_text, trace, returned, summary>>
    /\ UNCHANGED outsideSummarizer

MapperNext ==
    \/ pc = "idle" /\ \E sd \in StructuredInputs, d \in Durations :
                         MapperEntry(sd, <<"h", "i">>, d)
    \/ Map

MapperSpec == Init /\ [][MapperNext]_vars

\* ------------------------------------------------------------------------
\* OllamaSummarizer._repair_json as a state machine (lines 66-107)
\* ------------------------------------------------------------------------

\* Bound: the longest text of RepairAlphabet the repair is given
MaxTextLen == 3

\* Characters the five patterns react to, a letter and a blank
RepairAlphabet == {"[", "]", "{", "}", ",", ":", "\"", "'", "a", " "}

\* Every text of at most MaxTextLen characters of RepairAlphabet
ShortTexts == UNION {[1..n -> RepairAlphabet] : n \in 0..MaxTextLen}

\* [John, Sarah]
J_UnquotedBare == <<"[", "J", "o", "h", "n", ",", " ", "S", "a", "r", "a", "h", "]">>

\* [a, b, c]
J_UnquotedThree == <<"[", "a", ",", " ", "b", ",", " ", "c", "]">>

\* {"participants": [John, Sarah]}
J_UnquotedParticipants == <<"{", "\"", "p", "a", "r", "t", "i", "c", "i", "p", "a", "n", "t",
      "s", "\"", ":", " ", "[", "J", "o", "h", "n", ",", " ", "S", "a", "r", "a", "h", "]", "}">>

\* {"participants": ["John", "Sarah"]}
J_QuotedParticipants == <<"{", "\"", "p", "a", "r", "t", "i", "c", "i", "p", "a", "n", "t", "s",
      "\"", ":", " ", "[", "\"", "J", "o", "h", "n", "\"", ",", " ", "\"", "S", "a", "r", "a",
      "h", "\"", "]", "}">>

\* ["a", "b",]
J_TrailingArray == <<"[", "\"", "a", "\"", ",", " ", "\"", "b", "\"", ",", "]">>

\* ["a", "b"]
J_TrailingArrayFixed == <<"[", "\"", "a", "\"", ",", " ", "\"", "b", "\"", "]">>

\* {"a": "b",}
J_TrailingObject == <<"{", "\"", "a", "\"", ":", " ", "\"", "b", "\"", ",", "}">>

\* {"a": ["x",],}
J_TrailingNested == <<"{", "\"", "a", "\"", ":", " ", "[", "\"", "x", "\"", ",", "]", ",", "}">>

\* [1, 2,]
J_TrailingNumbers == <<"[", "1", ",", " ", "2", ",", "]">>

\* The texts _repair_json is called with
RepairInputs ==
    ShortTexts \cup
    { J_UnquotedBare, J_UnquotedThree, J_UnquotedParticipants, J_QuotedParticipants,
      J_TrailingArray, J_TrailingArrayFixed, J_TrailingObject, J_TrailingNested,
      J_TrailingNumbers,
      R_Valid, R_TrailingComma, R_UnquotedOne, R_UnquotedTwo, R_UnquotedKey, R_SingleQuotes,
      R_Prose, R_Salvageable }

\* Lines 81-91: the list of (pattern, replacement) pairs, by name
repairs == <<"unquoted_elements", "trailing_comma_brace", "trailing_comma_bracket",
             "unquoted_keys", "single_quotes">>

\* Line 96: re.sub(pattern, replacement, repaired) for one pair of the list
ApplyRepair(name, s) ==
    CASE name = "unquoted_elements"      -> SubUnquotedElements(s, 1)
      [] name = "trailing_comma_brace"   -> SubTrailingComma(s, "}", 1)
      [] name = "trailing_comma_bracket" -> SubTrailingComma(s, "]", 1)
      [] name = "unquoted_keys"          -> SubUnquotedKeys(s, 1)
      [] name = "single_quotes"          -> SubSingleQuotes(s, 1)

\* What the steps of _repair_json cannot touch
outsideRepair ==
    <<summarizeVars, modelsVars, timeoutVars, recorderVars, cliVars, otherVars>>

\* What SimpleRecorder and AudioRecorder cannot touch
outsideRecorder ==
    <<pc, summarizeVars, repairVars, modelsVars, timeoutVars, cliVars, otherVars>>

\* Lines 76-78: the call; repaired = json_text
RepairEntry(text) ==
    /\ pc = "idle"
    /\ json_text' = text
    /\ repaired' = text
    /\ repair_index' = 1
    /\ pc' = "re_sub"
    /\ UNCHANGED <<repair_result, outsideRepair>>

\* Variant of RepairSub: the loop stops after the first pair of the list
RepairSub_FirstPairOnly ==
    /\ pc = "re_sub"
    /\ repaired' = ApplyRepair(repairs[repair_index], repaired)
    /\ repair_index' = repair_index + 1
    /\ pc' = IF repair_index >= 1 THEN "loads" ELSE "re_sub"
    /\ UNCHANGED <<json_text, repair_result, outsideRepair>>

\* Lines 93-98: one iteration of "for pattern, replacement in repairs"
RepairSub ==
    /\ pc = "re_sub"
    /\ repaired' = ApplyRepair(repairs[repair_index], repaired)
    /\ repair_index' = repair_index + 1
    /\ pc' = IF repair_index = Len(repairs) THEN "loads" ELSE "re_sub"
    /\ UNCHANGED <<json_text, repair_result, outsideRepair>>

\* Variant of RepairTest: the repaired text is returned untested
RepairTest_Untested ==
    /\ pc = "loads"
    /\ repair_result' = <<repaired>>
    /\ pc' = "done"
    /\ UNCHANGED <<json_text, repaired, repair_index, outsideRepair>>

\* Lines 100-107: json.loads(repaired); return repaired, or None when it raised
RepairTest ==
    /\ pc = "loads"
    /\ repair_result' = IF json_loads(repaired).ok THEN <<repaired>> ELSE <<>>
    /\ pc' = "done"
    /\ UNCHANGED <<json_text, repaired, repair_index, outsideRepair>>

RepairNext ==
    \/ pc = "idle" /\ \E text \in RepairInputs : RepairEntry(text)
    \/ RepairSub
    \/ RepairTest

RepairSpec == Init /\ [][RepairNext]_vars

\* ------------------------------------------------------------------------
\* The Response Cleaner as a state machine (lines 403-421)
\* ------------------------------------------------------------------------

\* {"a": 1}
F_Object == <<"{", "\"", "a", "\"", ":", " ", "1", "}">>

\* hello
F_Text == <<"h", "e", "l", "l", "o">>

\* {"a": "```"}
F_FenceInside == <<"{", "\"", "a", "\"", ":", " ", "\"", Backtick, Backtick, Backtick, "\"", "}">>

\* }{
F_BracesReversed == <<"}", "{">>

\*  {"a": [1]} ok
F_Padded == <<" ", "{", "\"", "a", "\"", ":", " ", "[", "1", "]", "}", " ", "o", "k">>

\* a``b
F_TwoBackticks == <<"a", Backtick, Backtick, "b">>

\* What may stand between the fences
FenceBodies == {<<>>, F_Object, F_Text, F_FenceInside, F_BracesReversed, F_Padded, F_TwoBackticks}

\* Opening fences: bare, with the tag json, with another tag, with an extra
\* backtick
FenceOpeners ==
    { Fence, FenceJson, Fence \o <<"j", "s">>, Fence \o <<"J", "S", "O", "N">>,
      FenceJson \o <<"c">>, <<Backtick>> \o FenceJson }

\* Closing fences; <<>> for a block the model left open
FenceClosers == { Fence, Fence \o <<"\n">>, Fence \o <<" ", "o", "k">>, <<>> }

\* Responses wrapped in a fenced code block, with up to MaxPad blanks in front
FencedResponses ==
    { Pad(a) \o o \o nl1 \o b \o nl2 \o c :
        a \in 0..MaxPad, o \in FenceOpeners, nl1 \in {<<>>, <<"\n">>}, b \in FenceBodies,
        nl2 \in {<<>>, <<"\n">>}, c \in FenceClosers }

\* The contents the cleaner is given
CleanerInputs == FencedResponses \cup Responses \cup FenceBodies

\* Line 403: response_text = ollama_response['message']['content'].strip()
CleanerEntry(r) ==
    /\ pc = "idle"
    /\ ollama_response' = r
    /\ response_text' = strip(r)
    /\ pc' = "fences"
    /\ UNCHANGED <<transcript, duration_minutes, attempt, structured_data, trace, returned,
                   summary, outsideSummarizer>>

\* Lines 411-414: remove the markdown fences
CleanerFences ==
    /\ pc = "fences"
    /\ response_text' = StripFences(response_text)
    /\ pc' = "braces"
    /\ UNCHANGED <<transcript, duration_minutes, attempt, ollama_response, structured_data,
                   trace, returned, summary, outsideSummarizer>>

\* Lines 417-421: keep the text from the first "{" to the last "}"
CleanerBraces ==
    /\ pc = "braces"
    /\ response_text' = SliceBraces(response_text)
    /\ pc' = "done"
    /\ UNCHANGED <<transcript, duration_minutes, attempt, ollama_response, structured_data,
                   trace, returned, summary, outsideSummarizer>>

CleanerNext ==
    \/ pc = "idle" /\ \E r \in CleanerInputs : CleanerEntry(r)
    \/ CleanerFences
    \/ CleanerBraces

CleanerSpec == Init /\ [][CleanerNext]_vars

\* ------------------------------------------------------------------------
\* MeetingTranscript.to_json_file (src/src/models.py, lines 35-39) and the
\* mapper applied to what it writes
\* ------------------------------------------------------------------------

K_decision   == <<"d", "e", "c", "i", "s", "i", "o", "n">>
K_duration   == <<"d", "u", "r", "a", "t", "i", "o", "n">>
K_transcript == <<"t", "r", "a", "n", "s", "c", "r", "i", "p", "t">>

\* self.model_dump(): the fields by name, nested models as dicts.  meeting_id
\* and date are left out, as in MeetingTranscript.
model_dump(p) ==
    PyDict(<<
        PyMember(K_duration, PyStr(p.duration)),
        PyMember(K_overview, PyStr(p.overview)),
        PyMember(K_participants,
                 PyList([i \in 1..Len(p.participants) |-> PyStr(p.participants[i])])),
        PyMember(K_discussion_areas,
                 PyList([i \in 1..Len(p.discussion_areas) |->
                     PyDict(<<PyMember(K_title, PyStr(p.discussion_areas[i].title)),
                              PyMember(K_analysis, PyStr(p.discussion_areas[i].analysis))>>)])),
        PyMember(K_key_points,
                 PyList([i \in 1..Len(p.key_points) |->
                     PyDict(<<PyMember(K_decision, PyStr(p.key_points[i].decision)),
                              PyMember(K_assignee, p.key_points[i].assignee),
                              PyMember(K_context, PyStr(p.key_points[i].context))>>)])),
        PyMember(K_next_steps,
                 PyList([i \in 1..Len(p.next_steps) |->
                     PyDict(<<PyMember(K_description, PyStr(p.next_steps[i].description)),
                              PyMember(K_assignee, p.next_steps[i].assignee),
                              PyMember(K_deadline, p.next_steps[i].deadline)>>)])),
        PyMember(K_transcript, PyStr(p.transcript)) >>)

\* Lines 35-39: to_json_file of the summary summarize_transcript returned
ToJsonFile ==
    /\ pc = "done"
    /\ returned = "MeetingTranscript"
    /\ saved = <<>>
    /\ saved' = summary
    /\ json_file' = <<model_dump(summary[1])>>
    /\ pc' = "saved"
    /\ UNCHANGED <<summarizeVars, repairVars, timeoutVars, recorderVars, cliVars,
                   otherVars>>

\* The persisted object is handed to the mapper (line 455), with the
\* transcript and the duration of the first mapping
MapSaved ==
    /\ pc = "saved"
    /\ structured_data' = json_file
    /\ pc' = "map"
    /\ UNCHANGED <<transcript, duration_minutes, attempt, ollama_response, response_text,
                   trace, returned, summary, outsideSummarizer>>

RoundTripNext ==
    \/ pc = "idle" /\ \E sd \in StructuredInputs, d \in Durations :
                         MapperEntry(sd, <<"h", "i">>, d)
    \/ Map
    \/ ToJsonFile
    \/ MapSaved

RoundTripSpec == Init /\ [][RoundTripNext]_vars

\* ------------------------------------------------------------------------
\* The timeout computation (lines 363-368) on transcripts given by length
\* ------------------------------------------------------------------------

\* Bound: the transcripts have up to MaxBucket full buckets of characters
MaxBucket == 12
\* Bound: the calls whose timeouts are compared
MaxCalls == 2

\* Lengths at, just behind and just before every bucket boundary
TranscriptLengths ==
    {b * timeout_bucket + o : b \in 0..MaxBucket, o \in {0, 1, timeout_bucket - 1}}

\* Lines 365-367 for a transcript of n characters
ComputeTimeout(n) ==
    /\ Len(lengths) < MaxCalls
    /\ lengths' = Append(lengths, n)
    /\ timeouts' = Append(timeouts, timeout_seconds(n))
    /\ UNCHANGED <<pc, summarizeVars, repairVars, modelsVars, recorderVars,
                   cliVars, otherVars>>

TimeoutNext == \E n \in TranscriptLengths : ComputeTimeout(n)

TimeoutSpec == Init /\ [][TimeoutNext]_vars

\* ------------------------------------------------------------------------
\* Properties
\* ------------------------------------------------------------------------

\* The positions of the trace at which op was called
OpsAt(op) == {i \in 1..Len(trace) : trace[i].op = op}
Ran(op) == OpsAt(op) # {}

\* A model call has returned a response
ResponseReceived == \E i \in OpsAt("chat") : trace[i].ok

\* The part of the trace that belongs to the loop iteration begun at position a
\* (its marker excluded)
AttemptSegment(a) ==
    {k \in (a + 1)..Len(trace) : \A b \in OpsAt("attempt") : ~(a < b /\ b <= k)}

\* A transcript that is empty, blank, or "none" ignoring case and surrounding
\* blanks
SentinelTranscript(t) == strip(t) = <<>> \/ lower(strip(t)) = S_none

\* The flags of the first and the second json.loads of the call
ParseFlags == [n \in 1..Cardinality(OpsAt("json_loads")) |->
                  trace[CHOOSE i \in OpsAt("json_loads") :
                            Cardinality({j \in OpsAt("json_loads") : j <= i}) = n].ok]

\* C1: once a model response has been received, summarize_transcript does not
\* end in failure: it returns a MeetingTranscript, whatever the response is.
C1_NoFailureAfterResponse ==
    (pc = "done" /\ ResponseReceived) => returned = "MeetingTranscript"

\* C2: one call makes at most 3 model calls; a model call that is followed by
\* another one has failed (so none follows a successful one); and a further
\* attempt begins only after an operation of the attempt before it has failed.
C2_AtMostThreeModelCalls ==
    /\ Cardinality(OpsAt("chat")) <= 3
    /\ \A i, j \in OpsAt("chat") : i < j => ~trace[i].ok
    /\ \A b \in OpsAt("attempt") :
         trace[b].arg > 0 =>
           \E a \in OpsAt("attempt") :
              /\ a < b
              /\ trace[a].arg = trace[b].arg - 1
              /\ \E k \in (a + 1)..(b - 1) : ~trace[k].ok

C2_Witness ==
    /\ pc = "done"
    /\ Cardinality(OpsAt("chat")) = 3
    /\ ResponseReceived

\* C3: when every attempt of the retry loop has failed, the call returns the
\* failure signal (None), and no Cleaner, parse, repair, Mapper or Fallback
\* step has run.
C3_ExhaustionReturnsFailure ==
    (pc = "done" /\ Ran("attempt") /\ ~ResponseReceived) =>
        /\ returned = "None"
        /\ summary = <<>>
        /\ \A i \in 1..Len(trace) :
             trace[i].op \notin {"cleaner", "json_loads", "repair", "mapper", "fallback"}

C3_Witness ==
    /\ pc = "done"
    /\ Cardinality(OpsAt("attempt")) = 3
    /\ ~ResponseReceived
    /\ returned = "None"

\* C4: for a transcript that is empty, blank or "none" (any case, surrounded
\* by blanks or not) the call returns at once: no model call and no service
\* re-verification is made.
C4_SentinelMakesNoCall ==
    (pc # "idle" /\ SentinelTranscript(transcript)) =>
        /\ pc = "done"
        /\ ~Ran("chat")
        /\ ~Ran("_ensure_ollama_ready")
        /\ ~Ran("attempt")

C4_Witness ==
    /\ pc = "done"
    /\ transcript = <<" ", "N", "O", "N", "E", " ">>
    /\ trace = <<>>

\* C5: for an empty or "none" transcript the call returns the fixed "no
\* transcript" summary: a MeetingTranscript with the fixed overview and empty
\* lists, not the failure signal.
C5_SentinelReturnsPlaceholder ==
    (pc = "done" /\ SentinelTranscript(transcript)) =>
        /\ returned = "MeetingTranscript"
        /\ summary # <<>>
        /\ summary[1].overview = NoTranscriptOverview
        /\ summary[1].participants = <<>>
        /\ summary[1].key_points = <<>>
        /\ summary[1].next_steps = <<>>

\* C6: after a response the chain runs in order.  The Mapper runs iff the
\* cleaned text parses or, failing that, the repaired text parses; the repair
\* runs iff the cleaned text failed to parse, and after that parse; the
\* Fallback runs iff both parses failed.
C6_ChainOrder ==
    /\ Cardinality(OpsAt("json_loads")) <= 2
    /\ \A r \in OpsAt("repair") :
         /\ r >= 3
         /\ trace[r - 2].op = "cleaner"
         /\ trace[r - 1].op = "json_loads" /\ ~trace[r - 1].ok
    /\ \A m \in OpsAt("mapper") \cup OpsAt("fallback") :
         /\ m = Len(trace)
         /\ trace[m - 1].op = "json_loads"
         /\ trace[m - 1].ok = (trace[m].op = "mapper")
         /\ trace[m].op = "fallback" => Ran("repair")
    /\ (pc = "done" /\ ResponseReceived) =>
         /\ Len(ParseFlags) >= 1
         /\ ParseFlags[1] = json_loads(Cleaner(strip(ollama_response))).ok
         /\ Ran("repair") = ~ParseFlags[1]
         /\ Ran("repair") =>
              /\ Len(ParseFlags) = 2
              /\ ParseFlags[2] =
                   json_loads(SubUnquotedElements(Cleaner(strip(ollama_response)), 1)).ok
         /\ Ran("mapper") = (\E n \in 1..Len(ParseFlags) : ParseFlags[n])
         /\ Ran("fallback") = (\A n \in 1..Len(ParseFlags) : ~ParseFlags[n])

C6_Witness ==
    /\ pc = "done"
    /\ Ran("repair")
    /\ Ran("mapper")
    /\ returned = "MeetingTranscript"

\* C7: a cleaned response that does not parse but that _repair_json turns into
\* parseable JSON is mapped by summarize_transcript, not sent to the Fallback.
C7_RepairableIsMapped ==
    (/\ pc = "done"
     /\ ResponseReceived
     /\ ~json_loads(response_text).ok
     /\ _repair_json(response_text) # <<>>) =>
        /\ Ran("mapper")
        /\ ~Ran("fallback")

\* C8: when the parse of the cleaned response and the parse of the repaired
\* response both fail, the call returns a MeetingTranscript (not None) with a
\* non-empty overview, no participants, key points or next steps, and the
\* transcript it was given.
C8_FallbackSummary ==
    (/\ pc = "done"
     /\ Len(ParseFlags) = 2
     /\ ~ParseFlags[1]
     /\ ~ParseFlags[2]) =>
        /\ returned = "MeetingTranscript"
        /\ summary # <<>>
        /\ summary[1].overview # <<>>
        /\ summary[1].participants = <<>>
        /\ summary[1].key_points = <<>>
        /\ summary[1].next_steps = <<>>
        /\ summary[1].transcript = transcript

C8_Witness ==
    /\ pc = "done"
    /\ ollama_response = R_Prose
    /\ transcript = <<" ", "h", "i", " ">>
    /\ returned = "MeetingTranscript"
    /\ summary[1].overview = FallbackOverview

\* C9: a summary returned on the fallback path carries every participant,
\* key point and overview text that the salvage patterns of
\* _create_enhanced_fallback extract from the malformed response.
C9_FallbackSalvages ==
    (pc = "done" /\ Ran("fallback")) =>
        /\ returned = "MeetingTranscript"
        /\ summary # <<>>
        /\ \A i \in 1..Len(SalvageList(response_text, Q_participants)) :
             \E j \in 1..Len(summary[1].participants) :
                summary[1].participants[j] = SalvageList(response_text, Q_participants)[i]
        /\ \A i \in 1..Len(SalvageList(response_text, Q_key_points)) :
             \E j \in 1..Len(summary[1].key_points) :
                summary[1].key_points[j].decision = SalvageList(response_text, Q_key_points)[i]
        /\ SalvageOverview(response_text) # <<>> =>
             summary[1].overview = SalvageOverview(response_text)[1]

\* C10: the first attempt is preceded by no wait and no re-verification; every
\* later attempt is preceded by exactly one wait, which is its direct
\* predecessor, and starts with exactly one re-verification, which has
\* returned before the attempt's model call; all waits are equally long; and
\* a wait is always followed by an attempt (none follows the last failure).
C10_BackoffAndReverify ==
    /\ \A i, j \in OpsAt("sleep") : trace[i].arg = trace[j].arg
    /\ \A s \in OpsAt("sleep") :
         IF s = Len(trace) THEN pc = "attempt" ELSE trace[s + 1].op = "attempt"
    /\ \A a \in OpsAt("attempt") :
         LET seg == AttemptSegment(a)
             ensures == {k \in seg : trace[k].op = "_ensure_ollama_ready"}
             chats == {k \in seg : trace[k].op = "chat"}
             sleeps == {k \in seg : trace[k].op = "sleep"}
         IN  /\ Cardinality(chats) <= 1
             /\ Cardinality(sleeps) <= 1
             /\ IF trace[a].arg = 0
                THEN a = 1 /\ ensures = {}
                ELSE /\ trace[a - 1].op = "sleep"
                     /\ Cardinality(ensures) <= 1
                     /\ seg # {} => ensures = {a + 1}
                     /\ \A c \in chats : trace[a + 1].ok /\ a + 1 < c

C10_Witness ==
    /\ pc = "done"
    /\ Cardinality(OpsAt("sleep")) = 2
    /\ Cardinality(OpsAt("_ensure_ollama_ready")) = 2
    /\ ResponseReceived

\* ------------------------------------------------------------------------
\* Properties of the Structured Mapper (checked under MapperSpec)
\* ------------------------------------------------------------------------

\* The parsed object the mapper was entered with
Sd == structured_data[1]

\* The mapper has run to its end
MapperDone == pc = "done" /\ Ran("mapper")

\* The value the mapper reads for a top-level key
FieldOf(sd, key) ==
    IF key = K_overview THEN DictGet(sd, key, PyStr(<<>>)) ELSE DictGet(sd, key, PyList(<<>>))

AllStr(v) == \A i \in 1..Len(v.kids) : v.kids[i].t = "str"

\* Every top-level field is absent or of the type the mapper expects
TopLevelWellTyped(sd) ==
    /\ sd.t = "dict"
    /\ FieldOf(sd, K_overview).t = "str"
    /\ FieldOf(sd, K_participants).t = "list" /\ AllStr(FieldOf(sd, K_participants))
    /\ \A key \in {K_next_steps, K_key_points, K_discussion_areas} : FieldOf(sd, key).t = "list"

\* The outputs of the entries of a list field whose extraction F succeeds, in
\* input order
Extracted(v, F(_)) ==
    LET good == SelectSeq(v.kids, LAMBDA x : F(x) # <<>>)
    IN  [i \in 1..Len(good) |-> F(good[i])[1]]

\* Extraction of one key_points / discussion_areas entry, <<>> when the entry
\* is skipped or raises
PointOf(x) == IF x.t \in {"str", "dict"} THEN MapPoint(x) ELSE <<>>
AreaOf(x)  == IF x.t = "dict" THEN MapArea(x) ELSE <<>>

\* C11: when the top-level fields are well typed, a failing extraction of one
\* next_steps, key_points or discussion_areas entry skips that entry only: the
\* mapper still returns a summary holding the outputs of all other entries.
C11_ItemFailureSkipsItem ==
    (MapperDone /\ TopLevelWellTyped(Sd)) =>
        /\ returned = "MeetingTranscript"
        /\ summary[1].next_steps = Extracted(FieldOf(Sd, K_next_steps), MapAction)
        /\ summary[1].key_points = Extracted(FieldOf(Sd, K_key_points), PointOf)
        /\ summary[1].discussion_areas = Extracted(FieldOf(Sd, K_discussion_areas), AreaOf)

\* The object has no member named key
Absent(sd, key) == \A i \in 1..Len(sd.kids) : sd.kids[i].s # key

\* The sub-field is absent from the entry x, or a value of one of the types
SubFieldIs(x, key, types) == Absent(x, key) \/ DictGet(x, key, PyNone).t \in types

\* The entries of the list fields have the shape models.py asks for: a
\* next_steps entry is an object with a str description and str-or-null assignee
\* and deadline, a key_points entry a str or an object with str point and
\* context, a discussion_areas entry an object with str title and analysis, a
\* participants entry a str.  Sub-fields may be absent.
ItemsClean(sd) ==
    /\ sd.t = "dict"
    /\ FieldOf(sd, K_next_steps).t = "list" =>
           \A i \in 1..Len(FieldOf(sd, K_next_steps).kids) :
               LET x == FieldOf(sd, K_next_steps).kids[i]
               IN  /\ x.t = "dict"
                   /\ SubFieldIs(x, K_description, {"str"})
                   /\ SubFieldIs(x, K_assignee, {"str", "None"})
                   /\ SubFieldIs(x, K_deadline, {"str", "None"})
    /\ FieldOf(sd, K_key_points).t = "list" =>
           \A i \in 1..Len(FieldOf(sd, K_key_points).kids) :
               LET x == FieldOf(sd, K_key_points).kids[i]
               IN  \/ x.t = "str"
                   \/ /\ x.t = "dict"
                      /\ SubFieldIs(x, K_point, {"str"})
                      /\ SubFieldIs(x, K_context, {"str"})
    /\ FieldOf(sd, K_discussion_areas).t = "list" =>
           \A i \in 1..Len(FieldOf(sd, K_discussion_areas).kids) :
               LET x == FieldOf(sd, K_discussion_areas).kids[i]
               IN  /\ x.t = "dict"
                   /\ SubFieldIs(x, K_title, {"str"})
                   /\ SubFieldIs(x, K_analysis, {"str"})
    /\ FieldOf(sd, K_participants).t = "list" => AllStr(FieldOf(sd, K_participants))

\* Some top-level field is present with the wrong type
TopLevelWrongType(sd) ==
    \/ FieldOf(sd, K_overview).t # "str"
    \/ \E key \in {K_participants, K_next_steps, K_key_points, K_discussion_areas} :
           FieldOf(sd, key).t # "list"

\* C12: a top-level field of the wrong type (overview not a string; participants,
\* next_steps, key_points or discussion_areas not a list) degrades to its
\* default and the mapper still returns a summary.
C12_WrongTypeDegrades ==
    (MapperDone /\ ItemsClean(Sd) /\ TopLevelWrongType(Sd)) =>
        /\ returned = "MeetingTranscript"
        /\ FieldOf(Sd, K_overview).t # "str" => summary[1].overview = <<>>
        /\ FieldOf(Sd, K_participants).t # "list" => summary[1].participants = <<>>
        /\ FieldOf(Sd, K_next_steps).t # "list" => summary[1].next_steps = <<>>
        /\ FieldOf(Sd, K_key_points).t # "list" => summary[1].key_points = <<>>
        /\ FieldOf(Sd, K_discussion_areas).t # "list" => summary[1].discussion_areas = <<>>

\* The text of a sub-field of an entry, "" when the entry lacks it
SubField(x, key) == IF Absent(x, key) THEN <<>> ELSE DictGet(x, key, PyNone).s

\* C13: when every key that is present is well formed, the mapper succeeds
\* whatever subset of the five keys is absent, gives an absent overview "" and
\* an absent list [], and keeps every discussion_areas object, with "" for a
\* title or analysis it lacks.
C13_AbsentKeysDefault ==
    (MapperDone /\ TopLevelWellTyped(Sd) /\ ItemsClean(Sd)) =>
        /\ returned = "MeetingTranscript"
        /\ Absent(Sd, K_overview) => summary[1].overview = <<>>
        /\ Absent(Sd, K_participants) => summary[1].participants = <<>>
        /\ Absent(Sd, K_discussion_areas) => summary[1].discussion_areas = <<>>
        /\ Absent(Sd, K_key_points) => summary[1].key_points = <<>>
        /\ Absent(Sd, K_next_steps) => summary[1].next_steps = <<>>
        /\ LET objs == SelectSeq(FieldOf(Sd, K_discussion_areas).kids, LAMBDA x : x.t = "dict")
           IN  summary[1].discussion_areas =
                   [i \in 1..Len(objs) |-> [title    |-> SubField(objs[i], K_title),
                                            analysis |-> SubField(objs[i], K_analysis)]]

\* An object with only discussion_areas, whose entries lack a sub-field, has
\* been mapped
C13_Witness ==
    /\ MapperDone /\ returned = "MeetingTranscript"
    /\ \A key \in {K_overview, K_participants, K_key_points, K_next_steps} : Absent(Sd, key)
    /\ FieldOf(Sd, K_discussion_areas) = PyList(<<D_titleOnly, D_analysisOnly>>)
    /\ Len(summary[1].discussion_areas) = 2

\* C14: a key_points array of bare strings and {point, context} objects maps to
\* one Decision per entry, in input order: a string s to decision s with
\* assignee "" and context "", an object to its point and its context with
\* assignee "".
C14_KeyPointsUniform ==
    (MapperDone /\ TopLevelWellTyped(Sd) /\ ItemsClean(Sd)) =>
        LET points == FieldOf(Sd, K_key_points).kids
        IN  /\ returned = "MeetingTranscript"
            /\ Len(summary[1].key_points) = Len(points)
            /\ \A i \in 1..Len(points) :
                   summary[1].key_points[i] =
                       IF points[i].t = "str"
                       THEN [decision |-> points[i].s, assignee |-> PyStr(<<>>),
                             context |-> <<>>]
                       ELSE [decision |-> SubField(points[i], K_point),
                             assignee |-> PyStr(<<>>),
                             context |-> SubField(points[i], K_context)]

\* An array with an object, a string and another object has been mapped to
\* three decisions
C14_Witness ==
    /\ MapperDone /\ returned = "MeetingTranscript"
    /\ FieldOf(Sd, K_key_points) = PyList(<<P_full, PyStr(T_kp), P_pointOnly>>)
    /\ Len(summary[1].key_points) = 3
    /\ summary[1].key_points[2].decision = T_kp

\* The object without its member key
Without(sd, key) == PyDict(SelectSeq(sd.kids, LAMBDA m : m.s # key))

\* C15: a participants list with entries that are not strings (null, numbers,
\* objects) does not make the mapping fail: the mapper returns a summary, and
\* the participants of that summary are the string entries, the others being
\* dropped or turned into strings.
C15_NonStringParticipants ==
    ( /\ MapperDone
      /\ TopLevelWellTyped(Without(Sd, K_participants))
      /\ ItemsClean(Without(Sd, K_participants))
      /\ FieldOf(Sd, K_participants).t = "list"
      /\ ~AllStr(FieldOf(Sd, K_participants)) ) =>
        /\ returned = "MeetingTranscript"
        /\ \A i \in 1..Len(FieldOf(Sd, K_participants).kids) :
               FieldOf(Sd, K_participants).kids[i].t = "str" =>
                   \E j \in 1..Len(summary[1].participants) :
                       summary[1].participants[j] = FieldOf(Sd, K_participants).kids[i].s

\* C16: in a summary the mapper returns, the assignee of every next_steps entry
\* is a string, never None: "" when the entry has no assignee key or holds
\* null or "" there; the deadline is None when the entry has no deadline key.
C16_AssigneeNeverNull ==
    (MapperDone /\ returned = "MeetingTranscript" /\ FieldOf(Sd, K_next_steps).t = "list") =>
        LET steps == FieldOf(Sd, K_next_steps).kids
        IN  /\ Len(summary[1].next_steps) = Len(steps)
            /\ \A i \in 1..Len(steps) :
                   /\ summary[1].next_steps[i].assignee.t = "str"
                   /\ SubFieldIs(steps[i], K_assignee, {"None"}) =>
                          summary[1].next_steps[i].assignee = PyStr(<<>>)
                   /\ DictGet(steps[i], K_assignee, PyNone) = PyStr(<<>>) =>
                          summary[1].next_steps[i].assignee = PyStr(<<>>)
                   /\ Absent(steps[i], K_deadline) =>
                          summary[1].next_steps[i].deadline = PyNone

\* Entries with a null assignee, with an empty one and without the assignee
\* and deadline keys have been mapped
C16_Witness ==
    /\ MapperDone /\ returned = "MeetingTranscript"
    /\ FieldOf(Sd, K_next_steps) \in {PyList(<<A_null, A_empty>>), PyList(<<A_full, A_bare>>)}
    /\ summary[1].next_steps[2].assignee = PyStr(<<>>)

\* ------------------------------------------------------------------------
\* Properties of _repair_json (checked under RepairSpec)
\* ------------------------------------------------------------------------

\* _repair_json has returned
RepairDone == pc = "done" /\ repair_index > 0

\* Texts with an array of two or more unquoted elements and no other defect
UnquotedArrays == {J_UnquotedBare, J_UnquotedThree, J_UnquotedParticipants, R_UnquotedTwo}

\* C17: for a text whose only defect is an array of two or more unquoted
\* elements, _repair_json quotes every element and returns the repaired text,
\* which parses; "participants": [John, Sarah] becomes ["John", "Sarah"].
C17_UnquotedArrayRepaired ==
    (RepairDone /\ json_text \in UnquotedArrays) =>
        /\ repair_result # <<>>
        /\ json_text = J_UnquotedParticipants =>
               json_loads(repair_result[1]).val = json_loads(J_QuotedParticipants).val

\* Texts whose only defect is a comma immediately before "]" or "}"
TrailingCommaTexts ==
    {J_TrailingArray, J_TrailingObject, J_TrailingNested, J_TrailingNumbers, R_TrailingComma}

\* C18: for a text whose only defect is a comma immediately before "]" or "}",
\* _repair_json removes that comma and returns a text that parses; ["a", "b",]
\* becomes ["a", "b"].
C18_TrailingCommaRemoved ==
    (RepairDone /\ json_text \in TrailingCommaTexts) =>
        /\ repair_result # <<>>
        /\ json_loads(repair_result[1]).ok
        /\ ~Contains(repair_result[1], <<",", "]">>)
        /\ ~Contains(repair_result[1], <<",", "}">>)
        /\ json_text # J_TrailingNumbers =>
               repair_result[1] =
                   replace(replace(json_text, <<",", "]">>, <<"]">>), <<",", "}">>, <<"}">>)
        /\ json_text = J_TrailingArray => repair_result[1] = J_TrailingArrayFixed

\* ["a", "b",] has been repaired to ["a", "b"]
C18_Witness ==
    RepairDone /\ json_text = J_TrailingArray /\ repair_result = <<J_TrailingArrayFixed>>

\* C19: _repair_json returns either None or a text that json.loads accepts,
\* never a text that does not parse; what it returns is the outcome of the five
\* substitutions applied in order.
C19_RepairReturnsParseableOrNone ==
    /\ pc = "re_sub" => repair_index \in 1..Len(repairs)
    /\ RepairDone =>
        /\ repair_result = <<>> \/ json_loads(repair_result[1]).ok
        /\ repair_result = <<>> <=> ~json_loads(RepairPasses(json_text)).ok
        /\ repair_result = _repair_json(json_text)

\* The substitutions changed the text, the outcome still does not parse, and
\* None has been returned
C19_Witness ==
    RepairDone /\ repaired # json_text /\ ~json_loads(repaired).ok /\ repair_result = <<>>

\* ------------------------------------------------------------------------
\* Properties of the Response Cleaner (checked under CleanerSpec)
\* ------------------------------------------------------------------------

\* The cleaner is through with a response that starts with a fence
FencedCleaned == pc = "done" /\ startswith(strip(ollama_response), Fence)

\* sub occurs in s as a contiguous part
IsSubstring(sub, s) == sub = <<>> \/ Contains(s, sub)

\* sub can be obtained from s by deleting characters
RECURSIVE IsSubsequenceFrom(_, _, _, _)
IsSubsequenceFrom(sub, i, s, j) ==
    IF i > Len(sub) THEN TRUE
    ELSE LET k == NextIn(s, j, {sub[i]})
         IN  k <= Len(s) /\ IsSubsequenceFrom(sub, i + 1, s, k + 1)

\* The response without its fence markers: without every triple backtick, and
\* without every triple backtick with the tag json when it starts with one
MarkersRemoved(t) ==
    IF startswith(t, FenceJson) THEN replace(replace(t, FenceJson, <<>>), Fence, <<>>)
    ELSE replace(t, Fence, <<>>)

BeforeBraces == StripFences(strip(ollama_response))

\* C21: when the text holds a "{" and a "}", in whatever order, the cleaner
\* returns the span from the first "{" through the last "}", which starts with
\* "{" and ends with "}"; when it lacks one of them the text is passed through
\* unchanged.
C21_BraceSpan ==
    pc = "done" =>
        IF Contains(BeforeBraces, <<"{">>) /\ Contains(BeforeBraces, <<"}">>)
        THEN /\ response_text # <<>>
             /\ response_text[1] = "{"
             /\ response_text[Len(response_text)] = "}"
             /\ IsSubstring(response_text, BeforeBraces)
        ELSE response_text = BeforeBraces

\* ------------------------------------------------------------------------
\* Properties of the round trip (checked under RoundTripSpec)
\* ------------------------------------------------------------------------

\* C22: a summary that was serialized with model_dump and mapped again equals
\* the summary that was serialized, field for field.
C22_RoundTrip ==
    (pc = "done" /\ saved # <<>>) => summary = saved

\* ------------------------------------------------------------------------
\* Properties of the timeout computation (checked under TimeoutSpec)
\* ------------------------------------------------------------------------

\* C23: the timeout does not decrease when the transcript gets longer, is at
\* least 1800 s and at most 7200 s, and a transcript 10000 characters longer
\* gets 600 s more, up to the ceiling.
C23_TimeoutScaling ==
    /\ \A i \in 1..Len(timeouts) : 1800 <= timeouts[i] /\ timeouts[i] <= 7200
    /\ \A i \in 1..Len(timeouts) : lengths[i] < 10000 => timeouts[i] = 1800
    /\ \A i, j \in 1..Len(timeouts) :
           /\ lengths[i] <= lengths[j] => timeouts[i] <= timeouts[j]
           /\ lengths[j] = lengths[i] + 10000 =>
                  timeouts[j] = IF timeouts[i] + 600 < 7200 THEN timeouts[i] + 600 ELSE 7200

\* A transcript just short of nine buckets and one of nine buckets: the second
\* reaches the ceiling
C23_Witness ==
    lengths = <<89999, 90000>> /\ timeouts = <<6600, 7200>>

\* ------------------------------------------------------------------------
\* Properties of the summaries summarize_transcript returns (checked under Spec)
\* ------------------------------------------------------------------------

\* C24: in every summary summarize_transcript returns, mapped or fallback,
\* every key_points item has a non-empty decision text.
C24_StatementNeverEmpty ==
    (pc = "done" /\ returned = "MeetingTranscript") =>
        \A i \in 1..Len(summary[1].key_points) : summary[1].key_points[i].decision # <<>>

\* C25: every summary summarize_transcript returns, from the mapper or from
\* the fallback, holds the transcript it was called with, character for
\* character, blanks at its ends included.
C25_TranscriptVerbatim ==
    (pc = "done" /\ returned = "MeetingTranscript") => summary[1].transcript = transcript

\* A transcript with blanks at both ends has gone through cleaner, parser and
\* mapper
C25_Witness ==
    /\ pc = "done" /\ returned = "MeetingTranscript"
    /\ Ran("cleaner") /\ Ran("mapper")
    /\ transcript = <<" ", "h", "i", " ">>
    /\ summary[1].transcript = <<" ", "h", "i", " ">>

\* ---------------------------------------------------------------------------
\* SimpleRecorder and its AudioRecorder (simple_recorder.py, audio_recorder.py)
\* ---------------------------------------------------------------------------

\* The calls of one run, counted by the clock that stamps the file names
MaxClock == 4
\* The chunks the audio callback may append to audio_data
MaxChunks == 2

\* Session names given on the command line
SessionNames == {<<"Q", "&", "A">>, <<" ", "a", "-", "1">>}

\* start_recording: the characters of the session name that are alphanumeric
\* or one of ' ', '-', '_', stripped
safe_name(session_name) ==
    strip(SelectSeq(session_name,
                    LAMBDA c : c \in Letter \cup Digit \cup {" ", "-", "_"}))

\* stop_recording: the name of the default path, when the state holds none
DefaultName == <<"r", "e", "c", "o", "r", "d", "i", "n", "g">>

\* get_state: the state returned when recorder_state.json is missing or
\* cannot be read; a key that is absent or None is <<>>
DefaultState ==
    [recording |-> FALSE, current_file |-> <<>>, session_name |-> <<>>,
     start_time |-> <<>>, stop_time |-> <<>>, last_recording |-> <<>>]

\* SimpleRecorder.get_state
get_state == IF state_file = <<>> THEN DefaultState ELSE state_file[1]

\* The AudioRecorder object
audio_recorder ==
    [recording |-> recording, paused |-> paused, audio_data |-> audio_data]

\* AudioRecorder.start_recording: nothing when already recording
AudioRecorder_start_recording(a) ==
    IF a.recording THEN a
    ELSE [a EXCEPT !.recording = TRUE, !.audio_data = 0]

\* AudioRecorder.stop_recording: nothing when not recording
AudioRecorder_stop_recording(a) ==
    IF ~a.recording THEN a
    ELSE [a EXCEPT !.recording = FALSE, !.paused = FALSE]

\* AudioRecorder.save_recording: False without audio data or when writing the
\* file raises (ok = FALSE); on success the data is cleared
save_recording(a, ok) ==
    IF a.audio_data = 0 THEN [ar |-> a, ret |-> FALSE]
    ELSE IF ok
         THEN [ar |-> [a EXCEPT !.audio_data = 0, !.recording = FALSE],
               ret |-> TRUE]
         ELSE [ar |-> a, ret |-> FALSE]

\* stop_recording, lines 124-147: stop the audio recorder and save the audio
\* to the planned path (a default path when the state holds none)
StopAndSave(state, a, now, ok) ==
    LET recording_path ==
            IF state.current_file # <<>> THEN state.current_file[1]
            ELSE [timestamp |-> now, name |-> DefaultName]
        s == save_recording(AudioRecorder_stop_recording(a), ok)
    IN [ar |-> s.ar,
        recording_path |-> IF s.ret THEN <<recording_path>> ELSE <<>>,
        written |-> IF s.ret THEN {recording_path} ELSE {}]

\* stop_recording, lines 150-157, with last_recording written regardless of
\* the save
ClearedState_LastAlways(now, recording_path) ==
    [recording |-> FALSE, current_file |-> <<>>, session_name |-> <<>>,
     start_time |-> <<>>, stop_time |-> <<now>>,
     last_recording |-> <<[timestamp |-> now, name |-> DefaultName]>>]

\* stop_recording, lines 150-157: the state written whatever the save did
ClearedState(now, recording_path) ==
    [recording |-> FALSE, current_file |-> <<>>, session_name |-> <<>>,
     start_time |-> <<>>, stop_time |-> <<now>>,
     last_recording |-> recording_path]

\* What a call may change, as it was before the call
Snapshot ==
    [state_file |-> state_file, audio_recorder |-> audio_recorder,
     wav_files |-> wav_files]

\* SimpleRecorder.start_recording, given whether the state says "recording":
\* what it does to the recorder
StartRecordingEffect(session_name, already) ==
    /\ LET recording_path ==
               [timestamp |-> clock, name |-> safe_name(session_name)]
           a == AudioRecorder_start_recording(audio_recorder)
       IN IF already
          THEN /\ last_call' = <<[op |-> "start_recording", at |-> clock,
                                  raised |-> TRUE, ret |-> <<>>,
                                  before |-> Snapshot]>>
               /\ UNCHANGED <<state_file, recording, paused, audio_data>>
          ELSE /\ recording' = a.recording
               /\ paused' = a.paused
               /\ audio_data' = a.audio_data
               /\ state_file' =
                      <<[recording |-> TRUE,
                         current_file |-> <<recording_path>>,
                         session_name |-> <<session_name>>,
                         start_time |-> <<clock>>, stop_time |-> <<>>,
                         last_recording |-> <<>>]>>
               /\ last_call' = <<[op |-> "start_recording", at |-> clock,
                                  raised |-> FALSE,
                                  ret |-> <<recording_path>>,
                                  before |-> Snapshot]>>
    /\ clock' = clock + 1
    /\ UNCHANGED wav_files

\* SimpleRecorder.start_recording as one call
StartRecordingBody(session_name, already) ==
    /\ clock < MaxClock
    /\ StartRecordingEffect(session_name, already)
    /\ UNCHANGED outsideRecorder

\* start_recording without the check of the persisted state
start_recording_Unchecked(session_name) ==
    StartRecordingBody(session_name, FALSE)

\* SimpleRecorder.start_recording
start_recording(session_name) ==
    StartRecordingBody(session_name, get_state.recording)

\* SimpleRecorder.stop_recording; ok: writing the WAV file does not raise
stop_recording(ok) ==
    /\ clock < MaxClock
    /\ LET state == get_state
           r == StopAndSave(state, audio_recorder, clock, ok)
       IN IF ~state.recording
          THEN /\ last_call' = <<[op |-> "stop_recording", at |-> clock,
                                  raised |-> FALSE, ret |-> <<>>,
                                  before |-> Snapshot]>>
               /\ UNCHANGED <<state_file, recording, paused, audio_data,
                              wav_files>>
          ELSE /\ recording' = r.ar.recording
               /\ paused' = r.ar.paused
               /\ audio_data' = r.ar.audio_data
               /\ wav_files' = wav_files \cup r.written
               /\ state_file' = <<ClearedState(clock, r.recording_path)>>
               /\ last_call' = <<[op |-> "stop_recording", at |-> clock,
                                  raised |-> FALSE, ret |-> r.recording_path,
                                  before |-> Snapshot]>>
    /\ clock' = clock + 1
    /\ UNCHANGED outsideRecorder

\* AudioRecorder._audio_callback: a chunk is kept while recording, not paused
AudioCallback ==
    /\ recording /\ ~paused
    /\ audio_data < MaxChunks
    /\ audio_data' = audio_data + 1
    /\ UNCHANGED <<state_file, recording, paused, wav_files, clock,
                   last_call, outsideRecorder>>

\* AudioRecorder._record: the stream raises and the thread ends
RecordThreadFails ==
    /\ recording
    /\ recording' = FALSE
    /\ UNCHANGED <<state_file, paused, audio_data, wav_files, clock,
                   last_call, outsideRecorder>>

\* AudioRecorder.pause_recording
pause_recording ==
    /\ recording /\ ~paused
    /\ paused' = TRUE
    /\ UNCHANGED <<state_file, recording, audio_data, wav_files, clock,
                   last_call, outsideRecorder>>

\* AudioRecorder.resume_recording
resume_recording ==
    /\ recording /\ paused
    /\ paused' = FALSE
    /\ UNCHANGED <<state_file, recording, audio_data, wav_files, clock,
                   last_call, outsideRecorder>>

\* A later command of the CLI: SimpleRecorder() builds a fresh AudioRecorder,
\* recorder_state.json stays
NewRecorder ==
    /\ recording \/ paused \/ audio_data > 0
    /\ recording' = FALSE
    /\ paused' = FALSE
    /\ audio_data' = 0
    /\ UNCHANGED <<state_file, wav_files, clock, last_call, outsideRecorder>>

RecorderNext ==
    \/ \E session_name \in SessionNames : start_recording(session_name)
    \/ \E ok \in BOOLEAN : stop_recording(ok)
    \/ AudioCallback
    \/ RecordThreadFails
    \/ pause_recording
    \/ resume_recording
    \/ NewRecorder

RecorderSpec == Init /\ [][RecorderNext]_vars

\* The call a step makes, if it makes one
CallMade(op) ==
    /\ last_call' # last_call
    /\ last_call'[1].op = op

\* C29: start_recording called while the persisted state has recording = true
\* raises, does not start the audio recorder and leaves the persisted state
\* as it was; a call that returns was made with no session in progress, so
\* at most one session is ever recorded as in progress.
C29_AlreadyRecordingRaises ==
    [][CallMade("start_recording") =>
         IF get_state.recording
         THEN /\ last_call'[1].raised
              /\ UNCHANGED <<state_file, recording, paused, audio_data>>
         ELSE /\ ~last_call'[1].raised
              /\ state_file'[1].recording
              /\ state_file'[1].start_time = <<clock>>]_vars

\* A second start_recording was refused while the first session's state,
\* start_time included, is still the persisted one
C29_Witness ==
    /\ last_call # <<>>
    /\ last_call[1].op = "start_recording"
    /\ last_call[1].raised
    /\ last_call[1].at = 1
    /\ state_file # <<>>
    /\ state_file[1].recording
    /\ state_file[1].start_time = <<0>>
    /\ state_file = last_call[1].before.state_file
    /\ audio_data > 0

\* C30: stop_recording called while the persisted state has recording = true
\* always writes a cleared state (recording false, current_file and
\* session_name null) whether or not the audio was saved, and writes
\* last_recording exactly when the save wrote the file; called while
\* recording = false it returns None and changes neither the persisted state
\* nor the audio recorder.
C30_StopAlwaysClears ==
    [][CallMade("stop_recording") =>
         IF get_state.recording
         THEN /\ state_file' # <<>>
              /\ ~state_file'[1].recording
              /\ state_file'[1].current_file = <<>>
              /\ state_file'[1].session_name = <<>>
              /\ state_file'[1].last_recording = last_call'[1].ret
              /\ IF state_file'[1].last_recording # <<>>
                 THEN /\ state_file'[1].last_recording[1] \in wav_files'
                      /\ state_file'[1].last_recording[1] \notin wav_files
                 ELSE wav_files' = wav_files
         ELSE /\ last_call'[1].ret = <<>>
              /\ UNCHANGED <<state_file, recording, paused, audio_data,
                             wav_files>>]_vars

\* stop_recording was called on a session with audio data, writing the file
\* failed, and the state was cleared without last_recording
C30_Witness ==
    /\ last_call # <<>>
    /\ last_call[1].op = "stop_recording"
    /\ last_call[1].before.state_file # <<>>
    /\ last_call[1].before.state_file[1].recording
    /\ last_call[1].before.audio_recorder.audio_data > 0
    /\ last_call[1].ret = <<>>
    /\ state_file # <<>>
    /\ ~state_file[1].recording
    /\ state_file[1].current_file = <<>>
    /\ state_file[1].last_recording = <<>>
    /\ wav_files = {}

\* ---------------------------------------------------------------------------
\* The start and record commands and their signal handlers
\* (simple_recorder.py).  A Python signal handler runs in the main thread,
\* on top of whatever the main thread was doing, and a further signal runs a
\* further handler on top of it: the running code is a stack of frames, the
\* command's body at the bottom, and only the top frame takes steps.
\* ---------------------------------------------------------------------------

\* The signals delivered to one run of a command
MaxSignals == 3

SIGINT == 2
SIGTERM == 15

\* The frame of the command's body, or of a handler called with signum
Frame(signum, at) == [signum |-> signum, pc |-> at, final_path |-> <<>>]

Top == stack[Len(stack)]

SetTop(f) == [stack EXCEPT ![Len(stack)] = f]

\* The process is alive and the command has begun
Running == exit_code = <<>> /\ stack # <<>>

\* The top frame is the command's body
IsMain == Len(stack) = 1

\* sys.exit(0) in the top frame raises SystemExit through the frames below.
\* No "except Exception" catches it; the bare "except:" of get_state does,
\* when the frame it passes was reading recorder_state.json (in
\* stop_recording, or in process_recording's duration fallback): get_state
\* then returns its default and that frame goes on.  Otherwise the process
\* exits.
RaiseSystemExit ==
    \/ /\ stack' = <<>>
       /\ exit_code' = <<0>>
    \/ /\ state_file # <<>>
       /\ \E k \in 1..(Len(stack) - 1) :
            /\ stack[k].pc \in {"stop", "process"}
            /\ stack' = [SubSeq(stack, 1, k) EXCEPT ![k] =
                            IF stack[k].pc = "stop"
                            THEN [@ EXCEPT !.pc = "stopped",
                                           !.final_path = <<>>]
                            ELSE @]
       /\ UNCHANGED exit_code

\* The command line: start or record
RunCommand(cmd) ==
    /\ command = "none"
    /\ command' = cmd
    /\ stack' = <<Frame(0, "start_recording")>>
    /\ UNCHANGED <<recording_started, processing_started, exit_code, signals,
                   stops, begun, ended, summary_files, recorderVars, outsideCli>>

\* The session_name argument of start and record, left at its default
DefaultSessionName == <<"R", "e", "c", "o", "r", "d", "i", "n", "g">>

\* start line 459, record line 695: recorder.start_recording(session_name);
\* its exception is caught by "except Exception" and the process exits 1
CliStartRecording ==
    /\ Running /\ IsMain
    /\ Top.pc = "start_recording"
    /\ StartRecordingEffect(DefaultSessionName, get_state.recording)
    /\ IF get_state.recording
       THEN /\ stack' = <<>>
            /\ exit_code' = <<1>>
       ELSE /\ stack' = SetTop([Top EXCEPT !.pc = "started"])
            /\ UNCHANGED exit_code
    /\ UNCHANGED <<command, recording_started, processing_started, signals,
                   stops, begun, ended, summary_files, outsideCli>>

\* start line 460, record line 696: recording_started = True, then the wait
SetRecordingStarted ==
    /\ Running
    /\ Top.pc = "started"
    /\ recording_started' = TRUE
    /\ stack' = SetTop([Top EXCEPT !.pc = "waiting"])
    /\ UNCHANGED <<command, processing_started, exit_code, signals, stops,
                   begun, ended, summary_files, recorderVars, outsideCli>>

\* record lines 708-716: the countdown ends and the body calls stop_recording
CountdownEnds ==
    /\ Running /\ IsMain
    /\ command = "record"
    /\ Top.pc = "waiting"
    /\ stack' = SetTop([Top EXCEPT !.pc = "stop"])
    /\ stops' = stops + 1
    /\ UNCHANGED <<command, recording_started, processing_started, exit_code,
                   signals, begun, ended, summary_files, recorderVars, outsideCli>>

\* SIGINT or SIGTERM is delivered: signal_handler(signum, frame) is called on
\* top of the running frame
Signal(signum) ==
    /\ Running
    /\ Len(signals) < MaxSignals
    /\ signals' = Append(signals, [signum |-> signum, at |-> Top.pc])
    /\ stack' = Append(stack, Frame(signum, IF command = "start"
                                            THEN "check" ELSE "guard"))
    /\ UNCHANGED <<command, recording_started, processing_started, exit_code,
                   stops, begun, ended, summary_files, recorderVars, outsideCli>>

\* start.signal_handler lines 398-407, given the flag it reads and whether
\* SIGTERM returns
HandlerCheckBody(started, term_returns) ==
    /\ Running
    /\ Top.pc = "check"
    /\ IF started
       THEN IF Top.signum = SIGTERM /\ term_returns
            THEN /\ stack' = SubSeq(stack, 1, Len(stack) - 1)
                 /\ UNCHANGED exit_code
            ELSE RaiseSystemExit
       ELSE /\ stack' = SetTop([Top EXCEPT !.pc = "guard"])
            /\ UNCHANGED exit_code
    /\ UNCHANGED <<command, recording_started, processing_started, signals,
                   stops, begun, ended, summary_files, recorderVars, outsideCli>>

\* The handler without the check of processing_started
HandlerCheck_NoGuard == HandlerCheckBody(FALSE, TRUE)

\* The handler exiting on SIGTERM as it does on SIGINT
HandlerCheck_TermExits == HandlerCheckBody(processing_started, FALSE)

\* start.signal_handler lines 398-407
HandlerCheck == HandlerCheckBody(processing_started, TRUE)

\* start.signal_handler lines 409-412, record.signal_handler lines 640-643:
\* if recording_started, (start only: processing_started = True and) call
\* stop_recording; else go to the final sys.exit(0)
HandlerGuard ==
    /\ Running
    /\ Top.pc = "guard"
    /\ IF recording_started
       THEN /\ processing_started' = (processing_started \/ command = "start")
            /\ stack' = SetTop([Top EXCEPT !.pc = "stop"])
            /\ stops' = stops + 1
       ELSE /\ stack' = SetTop([Top EXCEPT !.pc = "exit"])
            /\ UNCHANGED <<processing_started, stops>>
    /\ UNCHANGED <<command, recording_started, exit_code, signals, begun,
                   ended, summary_files, recorderVars, outsideCli>>

\* SimpleRecorder.stop_recording lines 119-147, on top of the stack: None
\* when the state is not recording, else the audio is stopped and saved
StopBegin(ok) ==
    /\ Running
    /\ Top.pc = "stop"
    /\ LET state == get_state
           r == StopAndSave(state, audio_recorder, clock, ok)
       IN IF ~state.recording
          THEN /\ stack' = SetTop([Top EXCEPT !.pc = "stopped",
                                              !.final_path = <<>>])
               /\ UNCHANGED <<recording, paused, audio_data, wav_files>>
          ELSE /\ recording' = r.ar.recording
               /\ paused' = r.ar.paused
               /\ audio_data' = r.ar.audio_data
               /\ wav_files' = wav_files \cup r.written
               /\ stack' = SetTop([Top EXCEPT !.pc = "stop_save",
                                              !.final_path = r.recording_path])
    /\ UNCHANGED <<state_file, clock, last_call, command, recording_started,
                   processing_started, exit_code, signals, stops, begun,
                   ended, summary_files, outsideCli>>

\* SimpleRecorder.stop_recording lines 149-160: the cleared state is saved
StopEnd ==
    /\ Running
    /\ Top.pc = "stop_save"
    /\ state_file' = <<ClearedState(clock, Top.final_path)>>
    /\ clock' = clock + 1
    /\ stack' = SetTop([Top EXCEPT !.pc = "stopped"])
    /\ UNCHANGED <<recording, paused, audio_data, wav_files, last_call,
                   command, recording_started, processing_started, exit_code,
                   signals, stops, begun, ended, summary_files, outsideCli>>

\* start.signal_handler lines 413-431, record.signal_handler lines 644-666,
\* record lines 717-746: with a saved recording (any saved chunk makes the
\* file larger than 1000 bytes) process_recording is called; without one the
\* handler goes to its sys.exit(0) and the body of record returns
AfterStop ==
    /\ Running
    /\ Top.pc = "stopped"
    /\ IF Top.final_path # <<>>
       THEN /\ stack' = SetTop([Top EXCEPT !.pc = "process"])
            /\ begun' = begun + 1
            /\ UNCHANGED exit_code
       ELSE /\ IF IsMain
               THEN stack' = <<>> /\ exit_code' = <<0>>
               ELSE /\ stack' = SetTop([Top EXCEPT !.pc = "exit"])
                    /\ UNCHANGED exit_code
            /\ UNCHANGED begun
    /\ UNCHANGED <<command, recording_started, processing_started, signals,
                   stops, ended, summary_files, recorderVars, outsideCli>>

\* SimpleRecorder.process_recording returns (ok: the summary file is written,
\* the WAV file and recorder_state.json are deleted) or raises, which
\* "except Exception" catches: a handler goes on to its sys.exit(0), the body
\* of record returns or exits 1
ProcessEnds(ok) ==
    /\ Running
    /\ Top.pc = "process"
    /\ ended' = ended + 1
    /\ IF ok
       THEN /\ summary_files' = summary_files \cup {Top.final_path[1]}
            /\ wav_files' = wav_files \ {Top.final_path[1]}
            /\ state_file' = <<>>
       ELSE UNCHANGED <<summary_files, wav_files, state_file>>
    /\ IF IsMain
       THEN stack' = <<>> /\ exit_code' = <<IF ok THEN 0 ELSE 1>>
       ELSE /\ stack' = SetTop([Top EXCEPT !.pc = "exit"])
            /\ UNCHANGED exit_code
    /\ UNCHANGED <<recording, paused, audio_data, clock, last_call, command,
                   recording_started, processing_started, signals, stops,
                   begun, outsideCli>>

\* start.signal_handler lines 451-452, record.signal_handler lines 686-687
HandlerExit ==
    /\ Running
    /\ Top.pc = "exit"
    /\ RaiseSystemExit
    /\ UNCHANGED <<command, recording_started, processing_started, signals,
                   stops, begun, ended, summary_files, recorderVars, outsideCli>>

\* The steps the process takes by itself, once it has something to do
ProgramStep ==
    \/ CliStartRecording
    \/ SetRecordingStarted
    \/ HandlerCheck
    \/ HandlerGuard
    \/ \E ok \in BOOLEAN : StopBegin(ok)
    \/ StopEnd
    \/ AfterStop
    \/ \E ok \in BOOLEAN : ProcessEnds(ok)
    \/ HandlerExit

CliNext ==
    \/ \E cmd \in {"start", "record"} : RunCommand(cmd)
    \/ CliStartRecording
    \/ SetRecordingStarted
    \/ CountdownEnds
    \/ \E signum \in {SIGINT, SIGTERM} : Signal(signum)
    \/ HandlerCheck
    \/ HandlerGuard
    \/ \E ok \in BOOLEAN : StopBegin(ok)
    \/ StopEnd
    \/ AfterStop
    \/ \E ok \in BOOLEAN : ProcessEnds(ok)
    \/ HandlerExit
    \/ AudioCallback
    \/ RecordThreadFails

CliSpec == Init /\ [][CliNext]_vars

\* The main thread keeps running its code: a frame on top of the stack that
\* can take a step takes it
CliFairSpec == Init /\ [][CliNext]_vars /\ WF_vars(ProgramStep)

\* C26: in the start command, however many signals are delivered and
\* wherever they interrupt the handler, stop_recording followed by
\* process_recording is started at most once.
C26_PipelineStartedOnce ==
    command = "start" => (stops <= 1 /\ begun <= 1)

\* A second signal interrupted the first handler between its check of
\* processing_started and the assignment, and the second handler is
\* processing the recording
C26_Witness ==
    /\ command = "start"
    /\ Len(stack) = 3
    /\ stack[2].pc = "guard"
    /\ stack[3].pc = "process"
    /\ stops = 1
    /\ begun = 1

\* A SIGINT was delivered after the first signal
LaterSigint == \E i \in 2..Len(signals) : signals[i].signum = SIGINT

\* The step of a handler called with SIGTERM that finds processing_started
TermDuringProcessing ==
    /\ command = "start"
    /\ Running
    /\ Top.pc = "check"
    /\ Top.signum = SIGTERM
    /\ processing_started
    /\ stack' # stack
    /\ Len(stack') <= Len(stack)

\* C27: in the start command a SIGTERM delivered after processing has
\* started is ignored: its handler returns to the interrupted code without
\* exiting the process and without touching the recorder or the pipeline;
\* the process does not exit with process_recording unfinished unless a
\* later SIGINT was delivered, and a pipeline in progress goes on until
\* process_recording has ended.
C27_SigtermIgnoredWhileProcessing ==
    /\ [][TermDuringProcessing =>
            /\ stack' = SubSeq(stack, 1, Len(stack) - 1)
            /\ exit_code' = <<>>
            /\ UNCHANGED <<recorderVars, begun, ended, stops,
                           summary_files>>]_vars
    /\ []((command = "start" /\ exit_code # <<>> /\ begun > ended)
             => LaterSigint)
    /\ ((command = "start" /\ begun > ended)
           ~> (ended = begun \/ LaterSigint))

\* SIGINT started the processing, a SIGTERM arrived while process_recording
\* was running, and the summary file was written before the process exited
C27_Witness ==
    /\ command = "start"
    /\ Len(signals) = 2
    /\ signals[1].signum = SIGINT
    /\ signals[2] = [signum |-> SIGTERM, at |-> "process"]
    /\ ended = 1
    /\ summary_files # {}
    /\ exit_code = <<0>>

\* C28: in the record command, once process_recording has been called (from
\* the termination-signal handler or after the countdown), a further SIGTERM
\* or SIGINT does not abort it: process_recording is called at most once,
\* and the process does not exit before the call has ended.
C28_RecordPipelineNotAborted ==
    command = "record" =>
        /\ begun <= 1
        /\ exit_code # <<>> => ended = begun

\* The loop iteration a trace position belongs to: its marker's position
AttemptOf(i) ==
    CHOOSE a \in OpsAt("attempt") :
        /\ a < i
        /\ \A b \in OpsAt("attempt") : b < i => b <= a

\* C35: a failure of _ensure_ollama_ready during a retry is a failed attempt
\* of the same loop: it happens in a retry iteration, of which there are at
\* most 3 in all, no model call is made in that iteration, before the last
\* iteration it is followed by the same 5-second wait and the next
\* iteration, and in the last iteration it ends the call with the failure
\* signal.
C35_ReverifyFailureIsFailedAttempt ==
    /\ Cardinality(OpsAt("attempt")) <= max_retries
    /\ \A i \in OpsAt("_ensure_ollama_ready") :
         ~trace[i].ok =>
           LET a == AttemptOf(i) IN
           /\ a = i - 1
           /\ trace[a].arg \in 1..(max_retries - 1)
           /\ \A k \in AttemptSegment(a) : trace[k].op # "chat"
           /\ IF trace[a].arg < max_retries - 1
              THEN /\ i = Len(trace) => pc = "except"
                   /\ i < Len(trace) =>
                        trace[i + 1] = Event("sleep", BackoffSeconds, TRUE)
                   /\ i + 1 < Len(trace) =>
                        trace[i + 2] = Event("attempt", trace[a].arg + 1, TRUE)
              ELSE /\ i = Len(trace)
                   /\ pc \in {"except", "done"}
                   /\ pc = "done" => returned = "None"

\* The first model call failed, the re-verification failed in both retries,
\* and the call has returned the failure signal after one model call
C35_Witness ==
    /\ pc = "done"
    /\ returned = "None"
    /\ Cardinality(OpsAt("chat")) = 1
    /\ Cardinality({i \in OpsAt("_ensure_ollama_ready") : ~trace[i].ok}) = 2
    /\ Cardinality({i \in OpsAt("sleep") : trace[i].arg = BackoffSeconds}) = 2

\* C36: within one summarize_transcript call every model call is sent the
\* same model name, and the summarizer's model name is the configured one
\* throughout.
C36_SameModelEveryCall ==
    /\ \A i, j \in 1..Len(models_sent) : models_sent[i] = models_sent[j]
    /\ model_name = ConfiguredModel

\* The outcomes of a call
MappedOutcome == returned = "MeetingTranscript" /\ Ran("mapper")
FallbackOutcome == returned = "MeetingTranscript" /\ Ran("fallback")
FailureOutcome == returned = "None"

\* The number of the listed outcomes that hold
OutcomeCount(outcomes) == Cardinality({i \in 1..Len(outcomes) : outcomes[i]})

C33_NewRecordingNotPaused ==
    [][(CallMade("start_recording") /\ ~recording /\ recording')
          => ~paused']_vars

\* ---------------------------------------------------------------------------
\* AudioRecorder's two threads (audio_recorder.py): the main thread calling
\* start_recording, pause_recording, resume_recording and stop_recording,
\* and the audio thread running _audio_callback, step by step, with the two
\* locks.  A "with lock:" block is two steps: the lock is taken when free,
\* then the block runs and the lock is released.
\* ---------------------------------------------------------------------------

\* What the threads of AudioRecorder cannot touch
outsideThreads ==
    <<state_file, wav_files, clock, last_call, earlierVars, cliVars, clientVars,
      stopVars, processVars, ollamaVars, foldersVars>>

\* A step of the main thread's call: from one position to another
MainAt(from, to) == op_pc = from /\ op_pc' = to

\* A step of the callback: from one position to another
CallbackAt(from, to) == cb_pc = from /\ cb_pc' = to

\* start_recording, lines 68-72: not recording, so recording = True
AudioStartBegin ==
    /\ MainAt("none", "start_lock")
    /\ ~recording
    /\ recording' = TRUE
    /\ UNCHANGED <<paused, audio_data, cb_pc, pause_lock, audio_lock, appends,
                   outsideThreads>>

\* start_recording, line 75: audio_lock is taken
AudioStartLock ==
    /\ MainAt("start_lock", "start_clear")
    /\ audio_lock = "free"
    /\ audio_lock' = "main"
    /\ UNCHANGED <<recording, paused, audio_data, cb_pc, pause_lock, appends,
                   outsideThreads>>

\* start_recording, lines 76-88: audio_data = [], the lock is released
AudioStartClear ==
    /\ MainAt("start_clear", "none")
    /\ audio_data' = 0
    /\ audio_lock' = "free"
    /\ UNCHANGED <<recording, paused, cb_pc, pause_lock, appends,
                   outsideThreads>>

\* pause_recording lines 107-109, resume_recording lines 119-121: the call
\* goes on only while recording
PauseResumeBegin(op) ==
    /\ MainAt("none", op)
    /\ recording
    /\ UNCHANGED <<recording, paused, audio_data, cb_pc, pause_lock,
                   audio_lock, appends, outsideThreads>>

\* pause_recording line 110, resume_recording line 122, stop_recording
\* line 97: pause_lock is taken
MainPauseLock(op) ==
    /\ MainAt(op, "locked_" \o op)
    /\ pause_lock = "free"
    /\ pause_lock' = "main"
    /\ UNCHANGED <<recording, paused, audio_data, cb_pc, audio_lock, appends,
                   outsideThreads>>

\* pause_recording lines 111-115: paused = True, the lock is released
PauseSet ==
    /\ MainAt("locked_pause", "none")
    /\ paused' = TRUE
    /\ pause_lock' = "free"
    /\ UNCHANGED <<recording, audio_data, cb_pc, audio_lock, appends,
                   outsideThreads>>

\* resume_recording lines 123-127, stop_recording line 98: paused = False,
\* the lock is released
PauseClear(op) ==
    /\ MainAt("locked_" \o op, "none")
    /\ paused' = FALSE
    /\ pause_lock' = "free"
    /\ UNCHANGED <<recording, audio_data, cb_pc, audio_lock, appends,
                   outsideThreads>>

\* stop_recording, lines 92-96: recording, so recording = False
AudioStopBegin ==
    /\ MainAt("none", "stop")
    /\ recording
    /\ recording' = FALSE
    /\ UNCHANGED <<paused, audio_data, cb_pc, pause_lock, audio_lock, appends,
                   outsideThreads>>

\* _audio_callback, line 172: self.recording is read and is true
CallbackBegin ==
    /\ CallbackAt("idle", "is_paused")
    /\ recording
    /\ Len(appends) < MaxChunks
    /\ UNCHANGED <<recording, paused, audio_data, op_pc, pause_lock,
                   audio_lock, appends, outsideThreads>>

\* is_paused, line 131: pause_lock is taken
CallbackPauseLock ==
    /\ CallbackAt("is_paused", "read_paused")
    /\ pause_lock = "free"
    /\ pause_lock' = "audio"
    /\ UNCHANGED <<recording, paused, audio_data, op_pc, audio_lock, appends,
                   outsideThreads>>

\* is_paused, line 132: paused is read, the lock is released; the callback
\* goes on to append when it read False
CallbackReadPaused ==
    /\ cb_pc = "read_paused"
    /\ cb_pc' = IF paused THEN "idle" ELSE "append"
    /\ pause_lock' = "free"
    /\ UNCHANGED <<recording, paused, audio_data, op_pc, audio_lock, appends,
                   outsideThreads>>

\* _audio_callback, line 174: audio_lock is taken
CallbackAudioLock ==
    /\ CallbackAt("append", "appending")
    /\ audio_lock = "free"
    /\ audio_lock' = "audio"
    /\ UNCHANGED <<recording, paused, audio_data, op_pc, pause_lock, appends,
                   outsideThreads>>

\* _audio_callback, line 175: the chunk is appended, the lock is released
CallbackAppend ==
    /\ CallbackAt("appending", "idle")
    /\ audio_data' = audio_data + 1
    /\ appends' = Append(appends, paused)
    /\ audio_lock' = "free"
    /\ UNCHANGED <<recording, paused, op_pc, pause_lock, outsideThreads>>

ThreadNext ==
    \/ AudioStartBegin
    \/ AudioStartLock
    \/ AudioStartClear
    \/ \E op \in {"pause", "resume"} : PauseResumeBegin(op)
    \/ \E op \in {"pause", "resume", "stop"} : MainPauseLock(op)
    \/ PauseSet
    \/ \E op \in {"resume", "stop"} : PauseClear(op)
    \/ AudioStopBegin
    \/ CallbackBegin
    \/ CallbackPauseLock
    \/ CallbackReadPaused
    \/ CallbackAudioLock
    \/ CallbackAppend

ThreadSpec == Init /\ [][ThreadNext]_vars

\* C32: no chunk is appended to audio_data at a moment when paused is true,
\* and audio_data changes only in a step of a thread holding audio_lock.
C32_PausedAudioSkipped ==
    /\ [](\A i \in 1..Len(appends) : ~appends[i])
    /\ [][audio_data' # audio_data => audio_lock # "free"]_vars

\* ---------------------------------------------------------------------------
\* The stop command (simple_recorder.py lines 474-531), run in a process of
\* its own beside the process of a start or record command.
\* ---------------------------------------------------------------------------

\* What neither command touches
outsideCommands ==
    <<earlierVars, clientVars, threadVars, processVars, ollamaVars,
      foldersVars>>

\* The process pgrep -f 'simple_recorder.py start' finds: a live start command
StartProcessFound == command = "start" /\ Running

\* stop lines 485-491: pgrep looks for running start processes
StopCommandPgrep ==
    /\ stop_pc \in {"none", "done"}
    /\ Len(signals) < MaxSignals
    /\ stop_found' = StartProcessFound
    /\ stop_pc' = IF StartProcessFound THEN "signal" ELSE "check_state"
    /\ UNCHANGED <<recorderVars, cliVars, outsideCommands>>

\* stop lines 492-509: os.kill(pid, SIGINT); the handler of the start process
\* is called on top of what that process is doing.  A process that has exited
\* meanwhile gives ProcessLookupError, which is caught.
StopCommandKill ==
    /\ stop_pc = "signal"
    /\ stop_pc' = "done"
    /\ IF Running
       THEN /\ signals' = Append(signals, [signum |-> SIGINT, at |-> Top.pc])
            /\ stack' = Append(stack, Frame(SIGINT, "check"))
       ELSE UNCHANGED <<signals, stack>>
    /\ UNCHANGED <<command, recording_started, processing_started, exit_code,
                   stops, begun, ended, summary_files, stop_found,
                   recorderVars, outsideCommands>>

\* The state the stop command saves over a stuck one, lines 520-524
StuckStateCleared ==
    [DefaultState EXCEPT !.recording = FALSE, !.current_file = <<>>,
                         !.session_name = <<>>]

\* stop lines 513-527: no start process; a state with recording = true is
\* overwritten
StopCommandState ==
    /\ stop_pc = "check_state"
    /\ stop_pc' = "done"
    /\ state_file' = IF get_state.recording THEN <<StuckStateCleared>>
                     ELSE state_file
    /\ UNCHANGED <<recording, paused, audio_data, wav_files, clock, last_call,
                   cliVars, stop_found, outsideCommands>>

\* A step of the start or record process
CommandStep(A) == A /\ UNCHANGED stopVars

StopNext ==
    \/ \E cmd \in {"start", "record"} : CommandStep(RunCommand(cmd))
    \/ CommandStep(CliStartRecording)
    \/ CommandStep(SetRecordingStarted)
    \/ AudioCallback
    \/ CommandStep(CountdownEnds)
    \/ CommandStep(HandlerCheck)
    \/ CommandStep(HandlerGuard)
    \/ \E ok \in BOOLEAN : CommandStep(StopBegin(ok))
    \/ CommandStep(StopEnd)
    \/ CommandStep(AfterStop)
    \/ \E ok \in BOOLEAN : CommandStep(ProcessEnds(ok))
    \/ CommandStep(HandlerExit)
    \/ StopCommandPgrep
    \/ StopCommandKill
    \/ StopCommandState

StopSpec == Init /\ [][StopNext]_vars

\* C31: the stop command that finds no start process overwrites a state with
\* recording = true by recording = false, current_file = null, session_name =
\* null; the one that finds a start process sends SIGINT and does not write
\* the state file; and once stop has completed and the process of the command
\* has exited, the persisted state does not have recording = true.
C31_StopLeavesNoStuckState ==
    /\ [][(stop_pc = "check_state" /\ stop_pc' = "done"
             /\ get_state.recording)
            => /\ state_file' # <<>>
               /\ ~state_file'[1].recording
               /\ state_file'[1].current_file = <<>>
               /\ state_file'[1].session_name = <<>>]_vars
    /\ [][(stop_pc = "signal" /\ stop_pc' = "done")
            => state_file' = state_file]_vars
    /\ []((stop_pc = "done" /\ exit_code # <<>>) => ~get_state.recording)

\* ---------------------------------------------------------------------------
\* SimpleRecorder.process_recording (simple_recorder.py lines 270-371), step
\* by step, on a recording that has been saved: duration, transcription,
\* summary, the summary JSON, then the two deletions.
\* ---------------------------------------------------------------------------

\* What process_recording cannot touch
outsideProcess ==
    <<earlierVars, recorderVars, cliVars, clientVars, threadVars, stopVars,
      ollamaVars, foldersVars>>

\* The length of the recording in seconds as read from the WAV file; none
\* when the file cannot be read as WAV
WavSeconds == {<<>>, <<30>>, <<90>>}

\* The texts the transcriber returns
TranscriptTexts == {<<>>, <<"h", "i">>}

\* The default of line 286
DefaultDurationMinutes == 10

\* Lines 286-315: 0 under a minute, else whole minutes; the default when
\* neither the file nor the state's timestamps give a duration
DurationMinutes(seconds) ==
    IF seconds = <<>> THEN DefaultDurationMinutes
    ELSE IF seconds[1] < 60 THEN 0 ELSE seconds[1] \div 60

\* What OllamaSummarizer.summarize_transcript returns: None, or a
\* MeetingTranscript
NoneResult ==
    [is_none |-> TRUE, overview |-> "", participants |-> <<>>,
     discussion_areas |-> <<>>, key_points |-> <<>>, next_steps |-> <<>>]

SummaryResults ==
    { NoneResult,
      [NoneResult EXCEPT !.is_none = FALSE],
      [is_none |-> FALSE, overview |-> "ov", participants |-> <<"ann">>,
       discussion_areas |-> <<[title |-> "t", analysis |-> "a"]>>,
       key_points |-> <<[decision |-> "d", context |-> "c"]>>,
       next_steps |-> <<[description |-> "n", assignee |-> ""]>>] }

\* SimpleRecorder.summarize_transcript lines 237-259: the dict made of the
\* summarizer's result
SummaryDict(result) ==
    IF result.is_none
    THEN [summary |-> "Failed to generate summary", participants |-> <<>>,
          discussion_areas |-> <<>>, key_points |-> <<>>,
          action_items |-> <<>>]
    ELSE [summary |-> result.overview,
          participants |-> result.participants,
          discussion_areas |-> result.discussion_areas,
          key_points |-> [i \in DOMAIN result.key_points |->
                            result.key_points[i].decision],
          action_items |-> [i \in DOMAIN result.next_steps |->
                              result.next_steps[i].description]]

\* Lines 270-315: the call begins on a saved recording; duration_minutes
ProcessRecordingBegin(seconds, state) ==
    /\ proc_pc = "idle"
    /\ proc_pc' = "transcribe"
    /\ audio_exists' = TRUE
    /\ state_exists' = state
    /\ proc_duration' = DurationMinutes(seconds)
    /\ UNCHANGED <<transcript_data, summary_result, summary_data,
                   summary_written, outsideProcess>>

\* Line 318, transcribe_audio lines 162-207: the transcript, or an exception
\* (the transcriber fails, the transcript file cannot be written)
TranscribeAudio(ok, transcript_text) ==
    /\ proc_pc = "transcribe"
    /\ IF ok
       THEN /\ transcript_data' = <<[transcript_text |-> transcript_text]>>
            /\ proc_pc' = "summarize"
       ELSE /\ proc_pc' = "raised"
            /\ UNCHANGED transcript_data
    /\ UNCHANGED <<audio_exists, state_exists, proc_duration, summary_result,
                   summary_data, summary_written, outsideProcess>>

\* Lines 321-325, summarize_transcript lines 209-268: OllamaSummarizer() may
\* raise; its summarize_transcript returns a summary or None, and either way
\* a dict comes back
SummarizeTranscript(constructed, result) ==
    /\ proc_pc = "summarize"
    /\ IF constructed
       THEN /\ summary_result' = <<result>>
            /\ summary_data' = <<SummaryDict(result)>>
            /\ proc_pc' = "write"
       ELSE /\ proc_pc' = "raised"
            /\ UNCHANGED <<summary_result, summary_data>>
    /\ UNCHANGED <<audio_exists, state_exists, proc_duration, transcript_data,
                   summary_written, outsideProcess>>

\* Lines 328-346: complete_data
CompleteData ==
    [duration_minutes |-> proc_duration,
     summary |-> summary_data[1].summary,
     participants |-> summary_data[1].participants,
     discussion_areas |-> summary_data[1].discussion_areas,
     key_points |-> summary_data[1].key_points,
     action_items |-> summary_data[1].action_items,
     transcript |-> transcript_data[1].transcript_text]

\* Lines 348-349: the summary JSON is written, or open/json.dump raises.
\* unlink_first: the WAV file is deleted before the write.
SaveSummaryBody(ok, unlink_first) ==
    /\ proc_pc = "write"
    /\ audio_exists' = (audio_exists /\ ~unlink_first)
    /\ IF ok
       THEN /\ summary_written' = <<CompleteData>>
            /\ proc_pc' = "unlink_audio"
       ELSE /\ proc_pc' = "raised"
            /\ UNCHANGED summary_written
    /\ UNCHANGED <<state_exists, proc_duration, transcript_data,
                   summary_result, summary_data, outsideProcess>>

\* The write placed after the deletion of the WAV file
SaveSummary_AfterUnlink(ok) == SaveSummaryBody(ok, TRUE)

SaveSummary(ok) == SaveSummaryBody(ok, FALSE)

\* Lines 354-358: audio_path.unlink(), its exception caught
UnlinkAudio(ok) ==
    /\ proc_pc = "unlink_audio"
    /\ proc_pc' = "unlink_state"
    /\ audio_exists' = (audio_exists /\ ~ok)
    /\ UNCHANGED <<state_exists, proc_duration, transcript_data,
                   summary_result, summary_data, summary_written,
                   outsideProcess>>

\* Lines 361-371: recorder_state.json is deleted when it exists, its
\* exception caught; complete_data is returned
UnlinkState(ok) ==
    /\ proc_pc = "unlink_state"
    /\ proc_pc' = "returned"
    /\ state_exists' = (state_exists /\ ~ok)
    /\ UNCHANGED <<audio_exists, proc_duration, transcript_data,
                   summary_result, summary_data, summary_written,
                   outsideProcess>>

ProcessNext ==
    \/ \E seconds \in WavSeconds, state \in BOOLEAN :
         ProcessRecordingBegin(seconds, state)
    \/ \E ok \in BOOLEAN, transcript_text \in TranscriptTexts :
         TranscribeAudio(ok, transcript_text)
    \/ \E constructed \in BOOLEAN, result \in SummaryResults :
         SummarizeTranscript(constructed, result)
    \/ \E ok \in BOOLEAN : SaveSummary(ok)
    \/ \E ok \in BOOLEAN : UnlinkAudio(ok)
    \/ \E ok \in BOOLEAN : UnlinkState(ok)

ProcessSpec == Init /\ [][ProcessNext]_vars

outsideOllama ==
    <<earlierVars, recorderVars, cliVars, clientVars, threadVars, stopVars,
      processVars, foldersVars>>

\* The polls of the wait loop of lines 182-187 before it gives up
MaxWait == 2

\* is_ollama_running, lines 130-142: the server answers /api/tags
is_ollama_running == server = "responding"

\* The caller goes from one position to another
CallerAt(c, from, to) ==
    /\ caller_pc[c] = from
    /\ caller_pc' = [caller_pc EXCEPT ![c] = to]

\* Lines 156-163: return True when the server responds; else find the binary
\* (return False without one)
CheckRunning(c, binary) ==
    /\ CallerAt(c, "idle", IF is_ollama_running THEN "returned_true"
                           ELSE IF binary THEN "spawn" ELSE "returned_false")
    /\ UNCHANGED <<server, spawn_log, waited, outsideOllama>>

\* Lines 165-176: subprocess.Popen([ollama_binary, 'serve']); an exception
\* returns False
SpawnServer(c, ok) ==
    /\ CallerAt(c, "spawn", IF ok THEN "wait" ELSE "returned_false")
    /\ spawn_log' = IF ok THEN Append(spawn_log, server) ELSE spawn_log
    /\ server' = IF ok /\ server = "down" THEN "starting" ELSE server
    /\ UNCHANGED <<waited, outsideOllama>>

\* Lines 181-190: poll is_ollama_running every half second until the timeout
WaitForServer(c) ==
    /\ caller_pc[c] = "wait"
    /\ IF is_ollama_running
       THEN /\ caller_pc' = [caller_pc EXCEPT ![c] = "returned_true"]
            /\ UNCHANGED waited
       ELSE IF waited[c] < MaxWait
            THEN /\ waited' = [waited EXCEPT ![c] = @ + 1]
                 /\ UNCHANGED caller_pc
            ELSE /\ caller_pc' = [caller_pc EXCEPT ![c] = "returned_false"]
                 /\ UNCHANGED waited
    /\ UNCHANGED <<server, spawn_log, outsideOllama>>

\* The spawned server begins to answer
ServerResponds ==
    /\ server = "starting"
    /\ server' = "responding"
    /\ UNCHANGED <<caller_pc, spawn_log, waited, outsideOllama>>

OllamaNext ==
    \/ \E c \in Callers, binary \in BOOLEAN : CheckRunning(c, binary)
    \/ \E c \in Callers, ok \in BOOLEAN : SpawnServer(c, ok)
    \/ \E c \in Callers : WaitForServer(c)
    \/ ServerResponds

OllamaSpec == Init /\ [][OllamaNext]_vars

\* C34: no "ollama serve" is spawned in a state where a server is responding,
\* and at most one is spawned, whatever the interleaving of the callers.
C34_ServerSpawnedOnce ==
    /\ \A i \in 1..Len(spawn_log) : spawn_log[i] # "responding"
    /\ Len(spawn_log) <= 1

\* ---------------------------------------------------------------------------
\* FoldersManager (folders.py): the list self._data["folders"] and the file
\* folders.json.  A folder is its id, name and order; uuid4 gives a fresh id.
\* ---------------------------------------------------------------------------

\* What the FoldersManager cannot touch
outsideFolders ==
    <<earlierVars, recorderVars, cliVars, clientVars, threadVars, stopVars,
      processVars, ollamaVars>>

\* The folders ever created
MaxFolders == 3

FolderNames == {"work", "home"}

\* _save, lines 34-42: the list is written to folders.json, or the write
\* fails and the file stays
Save(data, ok) == folders_file' = IF ok THEN data ELSE folders_file

\* create_folder, lines 47-58: order is the length of the list
create_folder(name, ok) ==
    /\ next_id <= MaxFolders
    /\ folders' = Append(folders, [id |-> next_id, name |-> name,
                                   order |-> Len(folders)])
    /\ next_id' = next_id + 1
    /\ Save(folders', ok)
    /\ UNCHANGED outsideFolders

\* rename_folder, lines 60-65: the first folder with the id gets the name and
\* the list is saved; nothing happens without one
rename_folder(folder_id, name, ok) ==
    /\ IF \E i \in DOMAIN folders : folders[i].id = folder_id
       THEN LET i == CHOOSE k \in DOMAIN folders :
                       /\ folders[k].id = folder_id
                       /\ \A m \in 1..(k - 1) : folders[m].id # folder_id
            IN /\ folders' = [folders EXCEPT ![i].name = name]
               /\ Save(folders', ok)
       ELSE UNCHANGED <<folders, folders_file>>
    /\ UNCHANGED <<next_id, outsideFolders>>

\* The list without the folders of the given id, lines 68-70
FoldersWithout(list, folder_id) ==
    SelectSeq(list, LAMBDA f : f.id # folder_id)

\* delete_folder, lines 67-71
delete_folder(folder_id, ok) ==
    /\ folders' = FoldersWithout(folders, folder_id)
    /\ Save(folders', ok)
    /\ UNCHANGED <<next_id, outsideFolders>>

FoldersNext ==
    \/ \E name \in FolderNames, ok \in BOOLEAN : create_folder(name, ok)
    \/ \E folder_id \in 1..MaxFolders, name \in FolderNames, ok \in BOOLEAN :
         rename_folder(folder_id, name, ok)
    \/ \E folder_id \in 1..MaxFolders, ok \in BOOLEAN :
         delete_folder(folder_id, ok)

FoldersSpec == Init /\ [][FoldersNext]_vars

\* C39: the folders of the list have pairwise distinct order values.
C39_OrdersDistinct ==
    \A i, j \in DOMAIN folders :
        i # j => folders[i].order # folders[j].order

====
